---- MODULE Spec2Model ----
(***************************************************************************)
(* Deck-spec normalizer (app/planner.py, app/ai/prompt.py) and the         *)
(* flow-diagram renderer (app/diagram/svg_flow.py).                        *)
(*                                                                         *)
(* Python strings are sequences of one-character strings; Python lists are *)
(* sequences, so the Python index k is the TLA+ index k + 1.  An optional  *)
(* value (PresentationSpec | None, DiagramSpec | None) is a record whose   *)
(* field `null` tells None from a value.                                   *)
(***************************************************************************)
EXTENDS Integers, Sequences, FiniteSets, TLC

VARIABLES
    spec,         \* normalize_presentation_spec: the argument spec
    topic,        \* the argument topic
    slide_count,  \* the argument slide_count
    slides,       \* the local list `slides`
    pc,           \* position inside normalize_presentation_spec
    raised,       \* the exception that escaped the call, "none" if none
    ret,          \* the returned PresentationSpec
    again,        \* the outcome of normalizing the returned deck once more
    nodes,        \* render_flow_svg: the argument nodes
    edges,        \* the argument edges
    viewport,     \* the arguments <<width_px, height_px>>
    grid,         \* max_per_row, cols, rows, the canvas size and the fit scale
    pos,          \* the dict pos: label -> top-left corner
    svg,          \* the list svg of emitted elements
    svg_pc,       \* position inside render_flow_svg
    svg_raised,   \* the exception that escaped render_flow_svg, "none" if none
    shapes,       \* add_flow_diagram: the shapes added to slide.shapes, in order
    flow_pc,      \* position inside add_flow_diagram
    flow_raised,  \* the exception that escaped add_flow_diagram, "none" if none
    wrap_text,    \* _wrap_words: the argument text
    wrap_max_chars, \* the argument max_chars
    wrap_words,   \* the words the for loop has not taken yet
    wrap_lines,   \* the local list lines
    wrap_cur,     \* the local list cur
    wrap_pc,      \* position inside _wrap_words
    wrap_ret,     \* the returned list of lines
    pipe_pc,      \* generate_pptx_for_topic: position inside the function
    pipe_args,    \* the arguments topic and slide_count
    image_search, \* whether settings.unsplash_access_key gave an image search
    slide_count_final, \* the local slide_count_final
    spec_raw,     \* the local spec_raw
    pipe_spec,    \* the local spec, the normalized deck
    plans,        \* the local plans
    built,        \* build_pptx: the slides laid out so far, in order
    pipe_raised,  \* the exception that escaped generate_pptx_for_topic
    cache,        \* ImageCache: the bytes stored under each key, None if no file
    dl_pc,        \* UnsplashImageSearch.download: position inside the method
    dl_url,       \* the argument url
    attempt,      \* the loop variable attempt, 3 once range(3) is used up
    data,         \* the local data
    http,         \* the HTTP requests the running call has issued, with their results
    dl_ret,       \* the returned bytes
    dl_raised     \* the exception that escaped download

normVars == <<spec, topic, slide_count, slides, pc, raised, ret, again>>

flowVars == <<shapes, flow_pc, flow_raised>>

svgVars == <<nodes, edges, viewport, grid, pos, svg, svg_pc, svg_raised, flowVars>>

wrapVars == <<wrap_text, wrap_max_chars, wrap_words, wrap_lines, wrap_cur, wrap_pc, wrap_ret>>

pipeVars == <<pipe_pc, pipe_args, image_search, slide_count_final, spec_raw, pipe_spec,
              plans, built, pipe_raised>>

dlVars == <<cache, dl_pc, dl_url, attempt, data, http, dl_ret, dl_raised>>

vars == <<normVars, svgVars, wrapVars, pipeVars, dlVars>>

-----------------------------------------------------------------------------
(* Bounds of the model.                                                    *)

\* longest input deck whose slide roles and diagrams are enumerated
MaxDocLen == 4

\* largest requested slide_count
MaxSlideCount == 6

\* longest node list of generated distinct labels
MaxNodes == 20

-----------------------------------------------------------------------------
(* Python str and list primitives.                                         *)

\* the character U+2022 (bullet)
BULLET == "U+2022"

IsSpace(c) == c \in {" ", "\n", "\t", "\r"}

Min(a, b) == IF a < b THEN a ELSE b

Max(a, b) == IF a > b THEN a ELSE b

\* s[:n]
PySliceTo(s, n) ==
    IF n >= 0 THEN SubSeq(s, 1, Min(n, Len(s)))
    ELSE SubSeq(s, 1, Max(0, Len(s) + n))

\* s[k]
At(s, k) == s[k + 1]

\* s[k] = v
SetAt(s, k, v) == [s EXCEPT ![k + 1] = v]

\* s.strip()
Strip(s) ==
    LET keep == {k \in 1..Len(s) : ~IsSpace(s[k])} IN
    IF keep = {} THEN <<>>
    ELSE SubSeq(s, CHOOSE k \in keep : \A j \in keep : k <= j,
                   CHOOSE k \in keep : \A j \in keep : k >= j)

\* s.startswith(p)
StartsWith(s, p) == Len(s) >= Len(p) /\ SubSeq(s, 1, Len(p)) = p

\* c in s
Contains(s, c) == \E k \in 1..Len(s) : s[k] = c

\* s.find(p) + 1 for a non-empty p: the first index where p occurs, 0 if none
Find(s, p) ==
    LET hits == {k \in 1..(Len(s) - Len(p) + 1) : SubSeq(s, k, k + Len(p) - 1) = p} IN
    IF hits = {} THEN 0 ELSE CHOOSE k \in hits : \A j \in hits : k <= j

\* s.replace(old, new), old non-empty: leftmost non-overlapping occurrences
RECURSIVE Replace(_, _, _)
Replace(s, old, new) ==
    LET k == Find(s, old) IN
    IF k = 0 THEN s
    ELSE SubSeq(s, 1, k - 1) \o new \o Replace(SubSeq(s, k + Len(old), Len(s)), old, new)

\* s.split(c): the pieces between separators, empty pieces kept
RECURSIVE Split(_, _)
Split(s, c) ==
    LET k == Find(s, <<c>>) IN
    IF k = 0 THEN <<s>>
    ELSE <<SubSeq(s, 1, k - 1)>> \o Split(SubSeq(s, k + 1, Len(s)), c)

\* sep.join(parts)
RECURSIVE Join(_, _)
Join(parts, sep) ==
    IF parts = <<>> THEN <<>>
    ELSE IF Len(parts) = 1 THEN parts[1]
    ELSE parts[1] \o sep \o Join(Tail(parts), sep)

\* [f(x) for x in s if keep(x)] with f = strip and keep = non-empty after strip
RECURSIVE StripNonEmpty(_)
StripNonEmpty(parts) ==
    IF parts = <<>> THEN <<>>
    ELSE LET p == Strip(Head(parts)) IN
         IF p = <<>> THEN StripNonEmpty(Tail(parts))
         ELSE <<p>> \o StripNonEmpty(Tail(parts))

\* str(k) for k >= 0
RECURSIVE IntToStr(_)
IntToStr(k) ==
    LET digits == <<"0", "1", "2", "3", "4", "5", "6", "7", "8", "9">> IN
    IF k < 10 THEN <<digits[k + 1]>>
    ELSE IntToStr(k \div 10) \o <<digits[(k % 10) + 1]>>

-----------------------------------------------------------------------------
(* app/models.py                                                           *)

SlideType == {"intro", "process", "flow", "summary"}

\* DiagramSpec | None
NoDiagram == [null |-> TRUE]

DiagramSpec(ns, es) == [null |-> FALSE, nodes |-> ns, edges |-> es]

\* SlideSpec; image_query stands for the optional image and layout fields,
\* which have the default None (here the empty sequence) and are only copied
SlideSpec(type, title, content, keywords, image_query, diagram) ==
    [type |-> type, title |-> title, content |-> content, keywords |-> keywords,
     image_query |-> image_query, diagram |-> diagram]

\* PresentationSpec | None
NoSpec == [null |-> TRUE]

PresentationSpec(title, ss) == [null |-> FALSE, title |-> title, slides |-> ss]

\* DiagramSpec.nodes: Field(min_length=1)
DiagramValid(d) == d.null \/ Len(d.nodes) >= 1

\* PresentationSpec.model_validate succeeds: slides has min_length=1 and
\* every slide's diagram validates
ModelValid(ss) == Len(ss) >= 1 /\ \A k \in 1..Len(ss) : DiagramValid(ss[k].diagram)

-----------------------------------------------------------------------------
(* app/ai/prompt.py: mock_presentation                                     *)

MockIntro(t) ==
    SlideSpec("intro", t,
        <<"A","n"," ","o","v","e","r","v","i","e","w"," ","o","f"," ">> \o t
          \o <<" ","a","n","d"," ","w","h","y"," ","i","t"," ","m","a","t","t","e","r","s",".">>,
        <<t, <<"o","v","e","r","v","i","e","w">> >>, <<>>, NoDiagram)

MockCore ==
    SlideSpec("process", <<"C","o","r","e"," ","C","o","m","p","o","n","e","n","t","s">>,
        <<"I","d","e","n","t","i","f","y"," ","i","n","p","u","t","s",","," ","s","t","e","p","s",
          ","," ","a","n","d"," ","o","u","t","p","u","t","s","."," ","T","h","e","n"," ","c","o",
          "n","n","e","c","t"," ","t","h","e","m"," ","l","o","g","i","c","a","l","l","y",".">>,
        << <<"i","n","p","u","t","s">>, <<"s","t","e","p","s">>, <<"o","u","t","p","u","t","s">> >>,
        <<>>, NoDiagram)

MockDiagram ==
    LET start    == <<"S","t","a","r","t">>
        input    == <<"I","n","p","u","t">>
        process  == <<"P","r","o","c","e","s","s">>
        decision == <<"D","e","c","i","s","i","o","n">>
        output   == <<"O","u","t","p","u","t">>
        end      == <<"E","n","d">>
    IN  DiagramSpec(<<start, input, process, decision, output, end>>,
                    << <<start, input>>, <<input, process>>, <<process, decision>>,
                       <<decision, output>>, <<output, end>> >>)

MockFlow ==
    SlideSpec("flow", <<"E","n","d","-","t","o","-","E","n","d"," ","F","l","o","w">>,
        <<"A"," ","s","i","m","p","l","e"," ","f","l","o","w"," ","d","i","a","g","r","a","m"," ",
          "s","h","o","w","i","n","g"," ","h","o","w"," ","t","h","e"," ","p","r","o","c","e","s",
          "s"," ","m","o","v","e","s"," ","f","r","o","m"," ","s","t","a","r","t"," ","t","o"," ",
          "f","i","n","i","s","h",".">>,
        << <<"f","l","o","w">>, <<"d","i","a","g","r","a","m">> >>, <<>>, MockDiagram)

MockStep(k) ==
    SlideSpec("process", <<"S","t","e","p"," ">> \o IntToStr(k),
        <<"E","x","p","l","a","i","n"," ","o","n","e"," ","k","e","y"," ","s","t","e","p"," ","w",
          "i","t","h"," ","a"," ","c","l","e","a","r"," ","t","a","k","e","a","w","a","y",".">>,
        << <<"s","t","e","p">>, <<"t","a","k","e","a","w","a","y">> >>, <<>>, NoDiagram)

MockSummary ==
    SlideSpec("summary", <<"S","u","m","m","a","r","y">>,
        <<"K","e","y"," ","t","a","k","e","a","w","a","y","s"," ","a","n","d"," ","w","h","a","t",
          " ","t","o"," ","r","e","m","e","m","b","e","r",".">>,
        << <<"s","u","m","m","a","r","y">>, <<"r","e","c","a","p">> >>, <<>>, NoDiagram)

\* while len(slides) < max(slide_count - 1, 3): slides.append(step slide)
RECURSIVE MockPad(_, _)
MockPad(ss, n) ==
    IF Len(ss) < Max(n - 1, 3) THEN MockPad(Append(ss, MockStep(Len(ss))), n) ELSE ss

\* the dict mock_presentation returns (title, slides)
mock_presentation(t, n) ==
    [title  |-> t,
     slides |-> PySliceTo(Append(MockPad(<<MockIntro(t), MockCore, MockFlow>>, n), MockSummary), n)]

-----------------------------------------------------------------------------
(* app/planner.py: normalize_presentation_spec, one operator per stage     *)

\* what a call produced: the exception that escaped, or the returned deck
Outcome(exc, deck) == [raised |-> exc, ret |-> deck]

\* return PresentationSpec.model_validate(mock_presentation(topic, slide_count))
FallbackDeck(t, n) ==
    LET m == mock_presentation(t, n) IN
    IF ModelValid(m.slides) THEN Outcome("none", PresentationSpec(m.title, m.slides))
    ELSE Outcome("ValidationError", NoSpec)

KeyPoints ==
    <<"-"," ","K","e","y"," ","p","o","i","n","t","\n","-"," ","K","e","y"," ","p","o","i","n",
      "t","\n","-"," ","K","e","y"," ","p","o","i","n","t","\n","-"," ","K","e","y"," ","p","o",
      "i","n","t">>

\* a padding slide numbered from 1
PadSlideOneBased(t, k) ==
    SlideSpec("process", <<"S","t","e","p"," ">> \o IntToStr(k + 1), KeyPoints,
        <<t, <<"s","t","e","p","s">>, <<"p","r","o","c","e","s","s">>,
          <<"o","v","e","r","v","i","e","w">> >>, <<>>, NoDiagram)

PadSlide(t, k) ==
    SlideSpec("process", <<"S","t","e","p"," ">> \o IntToStr(k), KeyPoints,
        <<t, <<"s","t","e","p","s">>, <<"p","r","o","c","e","s","s">>,
          <<"o","v","e","r","v","i","e","w">> >>, <<>>, NoDiagram)

RECURSIVE PadTo(_, _, _)
PadTo(ss, t, n) ==
    IF Len(ss) < n THEN PadTo(Append(ss, PadSlide(t, Len(ss))), t, n) ELSE ss

\* mutant of EnforceCountOp: pads but never truncates
EnforceCountNoTruncate(ss, t, n) == PadTo(ss, t, n)

\* truncate, then pad
EnforceCountOp(ss, t, n) ==
    PadTo(IF Len(ss) > n THEN PySliceTo(ss, n) ELSE ss, t, n)

\* mutant of ForceIntroOp: the first slide keeps its role
ForceIntroSkipped(ss) == ss

\* the first slide made an intro slide that carries no diagram
ForceIntroDroppingDiagram(ss) ==
    SetAt(ss, 0, [At(ss, 0) EXCEPT !.type = "intro", !.diagram = NoDiagram])

\* slides[0] is forced to intro
ForceIntroOp(ss) ==
    IF At(ss, 0).type # "intro" THEN SetAt(ss, 0, [At(ss, 0) EXCEPT !.type = "intro"])
    ELSE ss

\* the last slide made a summary slide under the title it had
ForceSummaryKeepingTitle(ss) ==
    SetAt(ss, Len(ss) - 1, [At(ss, Len(ss) - 1) EXCEPT !.type = "summary"])

\* slides[-1] is forced to summary
ForceSummaryOp(ss) ==
    LET last == Len(ss) - 1 IN
    IF At(ss, last).type # "summary"
    THEN SetAt(ss, last, [At(ss, last) EXCEPT !.type = "summary",
                                               !.title = <<"S","u","m","m","a","r","y">>])
    ELSE ss

\* parts[:6]
MaxSentenceBullets == 6

\* lines[:8]
MaxBullets == 8

HyphenPrefix == <<"-", " ">>

BulletPrefix == <<BULLET, " ">>

PrefixAll(parts) == [k \in 1..Len(parts) |-> HyphenPrefix \o parts[k]]

\* every sentence of a one-line text becomes a bullet
ParagraphToBulletsUncapped(text) ==
    LET parts == StripNonEmpty(Split(Replace(text, <<BULLET>>, <<>>), ".")) IN
    IF Len(parts) >= 2 THEN Join(PrefixAll(parts), <<"\n">>)
    ELSE HyphenPrefix \o text

\* a one-line text becomes sentence bullets or one bullet
ParagraphToBullets(text) ==
    LET parts == StripNonEmpty(Split(Replace(text, <<BULLET>>, <<>>), ".")) IN
    IF Len(parts) >= 2 THEN Join(PrefixAll(PySliceTo(parts, MaxSentenceBullets)), <<"\n">>)
    ELSE HyphenPrefix \o text

FixLine(ln) ==
    IF StartsWith(ln, HyphenPrefix) \/ StartsWith(ln, BulletPrefix)
    THEN Replace(ln, BulletPrefix, HyphenPrefix)
    ELSE HyphenPrefix \o ln

\* the body of the bullet-coercion loop for one content string
CoerceContent(content) ==
    LET stripped == Strip(content)
        text0 == IF stripped = <<>> THEN KeyPoints ELSE stripped
        text1 == IF ~Contains(text0, "\n") THEN ParagraphToBullets(text0) ELSE text0
        lines == PySliceTo(StripNonEmpty(Split(text1, "\n")), MaxBullets)
    IN  Join([k \in 1..Len(lines) |-> FixLine(lines[k])], <<"\n">>)

CoerceBulletsOp(ss) ==
    [k \in 1..Len(ss) |->
        IF ss[k].type \in {"process", "summary"}
        THEN [ss[k] EXCEPT !.content = CoerceContent(ss[k].content)]
        ELSE ss[k]]

\* mutant of HasFlow: a flow slide without a diagram counts
HasFlowAnyDiagram(ss) == \E k \in 1..Len(ss) : ss[k].type = "flow"

\* any(s.type == "flow" and s.diagram is not None for s in slides)
HasFlow(ss) == \E k \in 1..Len(ss) : ss[k].type = "flow" /\ ~ss[k].diagram.null

\* mid = max(1, min(len(slides) - 2, len(slides) // 2))
FlowMid(ss) == Max(1, Min(Len(ss) - 2, Len(ss) \div 2))

FixedDiagram ==
    LET ns == << <<"I","n","p","u","t">>, <<"S","t","e","p"," ","1">>,
                 <<"S","t","e","p"," ","2">>, <<"O","u","t","p","u","t">>,
                 <<"R","e","s","u","l","t">> >>
    IN  DiagramSpec(ns, [k \in 1..(Len(ns) - 1) |-> <<ns[k], ns[k + 1]>>])

\* the slide before the last becomes the flow slide
ForceFlowBeforeLast(ss) ==
    SetAt(ss, Max(1, Len(ss) - 2),
          [At(ss, Max(1, Len(ss) - 2)) EXCEPT
              !.type = "flow",
              !.title = <<"P","r","o","c","e","s","s"," ","F","l","o","w">>,
              !.diagram = FixedDiagram])

\* slides[mid] becomes the flow slide
ForceFlowOp(ss) ==
    SetAt(ss, FlowMid(ss),
          [At(ss, FlowMid(ss)) EXCEPT !.type = "flow",
                                      !.title = <<"P","r","o","c","e","s","s"," ","F","l","o","w">>,
                                      !.diagram = FixedDiagram])

\* spec.title or topic
TitleOr(title, t) == IF title # <<>> THEN title ELSE t

\* the final model_validate, with the fallback on ValidationError
RevalidateOp(doc, ss, t, n) ==
    IF ModelValid(ss) THEN Outcome("none", PresentationSpec(TitleOr(doc.title, t), ss))
    ELSE FallbackDeck(t, n)

\* spec is None, or not slides
IsMissing(doc) == IF doc.null THEN TRUE ELSE doc.slides = <<>>

\* the whole call
Normalize(doc, t, n) ==
    IF IsMissing(doc) THEN FallbackDeck(t, n)
    ELSE LET counted == EnforceCountOp(doc.slides, t, n) IN
         IF counted = <<>> THEN Outcome("IndexError", NoSpec)
         ELSE LET coerced == CoerceBulletsOp(ForceSummaryOp(ForceIntroOp(counted))) IN
              IF HasFlow(coerced) THEN RevalidateOp(doc, coerced, t, n)
              ELSE IF FlowMid(coerced) >= Len(coerced) THEN Outcome("IndexError", NoSpec)
              ELSE RevalidateOp(doc, ForceFlowOp(coerced), t, n)

-----------------------------------------------------------------------------
(* The arguments the calls are made with.                                  *)

\* _add_bullets truncates bullets longer than this many characters
MaxBulletChars == 120

Topics == {<<"P","h","o","t","o","s","y","n","t","h","e","s","i","s">>}

SlideCounts == 0..MaxSlideCount

\* a two-node diagram, and a diagram built without validation (no nodes)
InDiagram == DiagramSpec(<< <<"A">>, <<"B">> >>, << <<<<"A">>, <<"B">>>> >>)

EmptyDiagram == DiagramSpec(<<>>, <<>>)

\* role and diagram of a slide of the enumerated decks
Shapes ==
    {<<"intro", NoDiagram>>, <<"process", NoDiagram>>, <<"process", EmptyDiagram>>,
     <<"flow", NoDiagram>>, <<"flow", InDiagram>>, <<"summary", NoDiagram>>}

\* the input slide at Python index k
InSlide(type, diagram, content, k) ==
    SlideSpec(type, <<"T">> \o IntToStr(k), content, << <<"k","w">> >>,
              <<"p","h","o","t","o">>, diagram)

Contents ==
    {<<>>,
     <<" "," ","\n"," ">>,
     <<"K","e","y"," ","i","d","e","a">>,
     <<"-"," ","K","e","y"," ","i","d","e","a">>,
     <<"v","1",".","2"," ","n","o","t","e","s">>,
     <<"S","t","e","p"," ","o","n","e","."," ","S","t","e","p"," ","t","w","o","."," ","S","t",
       "e","p"," ","t","h","r","e","e",".">>,
     <<BULLET," ","a","."," ",BULLET," ","b">>,
     <<"a","."," ","b","."," ","c","."," ","d","."," ","e","."," ","f","."," ","g",".">>,
     <<"A","l","p","h","a","\n","B","e","t","a">>,
     <<"-"," ","A","l","p","h","a","\n",BULLET," ","B","e","t","a">>,
     <<"a","\n","b","\n","c","\n","d","\n","e","\n","f","\n","g","\n","h","\n","i">>,
     [k \in 1..(MaxBulletChars + 1) |-> "x"]}

\* decks of every length up to MaxDocLen over Shapes, with one-bullet contents
StructDocs ==
    UNION {{PresentationSpec(<<"D","e","c","k">>,
                [k \in 1..len |-> InSlide(f[k][1], f[k][2], <<"K","e","y"," ","i","d","e","a">>,
                                          k - 1)]) :
            f \in [1..len -> Shapes]} : len \in 0..MaxDocLen}

\* two-slide untitled decks whose second slide has any role, diagram and content
ContentDocs ==
    {PresentationSpec(<<>>, <<InSlide("intro", NoDiagram, <<>>, 0), InSlide(type, d, c, 1)>>) :
        type \in SlideType, d \in {NoDiagram, InDiagram, EmptyDiagram}, c \in Contents}

Docs == {NoSpec} \cup StructDocs \cup ContentDocs

-----------------------------------------------------------------------------
(* normalize_presentation_spec as a state machine                          *)

NotCalled == [called |-> FALSE]

\* render_flow_svg is not running
SvgIdle ==
    /\ nodes = <<>>
    /\ edges = <<>>
    /\ viewport = <<0, 0>>
    /\ grid = [null |-> TRUE]
    /\ pos = <<>>
    /\ svg = <<>>
    /\ svg_pc = "idle"
    /\ svg_raised = "none"
    /\ shapes = <<>>
    /\ flow_pc = "idle"
    /\ flow_raised = "none"

\* _wrap_words is not running
WrapIdle ==
    /\ wrap_text = <<>>
    /\ wrap_max_chars = 0
    /\ wrap_words = <<>>
    /\ wrap_lines = <<>>
    /\ wrap_cur = <<>>
    /\ wrap_pc = "idle"
    /\ wrap_ret = <<>>

\* generate_pptx_for_topic is not running
PipeIdle ==
    /\ pipe_pc = "idle"
    /\ pipe_args = <<>>
    /\ image_search = FALSE
    /\ slide_count_final = 0
    /\ spec_raw = [null |-> TRUE]
    /\ pipe_spec = [null |-> TRUE]
    /\ plans = <<>>
    /\ built = <<>>
    /\ pipe_raised = "none"

\* download is not running
DownloadIdle ==
    /\ cache = <<>>
    /\ dl_pc = "idle"
    /\ dl_url = ""
    /\ attempt = 0
    /\ data = ""
    /\ http = <<>>
    /\ dl_ret = ""
    /\ dl_raised = "none"

Called(outcome) == [called |-> TRUE, raised |-> outcome.raised, ret |-> outcome.ret]

Return(outcome) ==
    /\ pc' = "done"
    /\ raised' = outcome.raised
    /\ ret' = outcome.ret

InitNorm ==
    /\ spec \in Docs
    /\ topic \in Topics
    /\ slide_count \in SlideCounts
    /\ slides = <<>>
    /\ pc = "start"
    /\ raised = "none"
    /\ ret = NoSpec
    /\ again = NotCalled
    /\ SvgIdle
    /\ WrapIdle
    /\ PipeIdle
    /\ DownloadIdle

\* the input document if the list changed in place were its own slide list
InputSharingList(doc, ss) == [doc EXCEPT !.slides = ss]

\* the input document once the local list has come to hold ss: the local
\* list is list(spec.slides), a list of its own, and a slide is changed by
\* model_copy, which builds a new slide, so append and item assignment do not
\* reach the document
InputAfter(doc, ss) == doc

\* spec is None, or it has no slides: the synthetic deck
ReturnFallback ==
    /\ pc = "start"
    /\ IsMissing(spec)
    /\ Return(FallbackDeck(topic, slide_count))
    /\ UNCHANGED <<spec, topic, slide_count, slides, again>>
    /\ UNCHANGED <<svgVars, wrapVars, pipeVars, dlVars>>

\* slides = list(spec.slides or [])
CopySlides ==
    /\ pc = "start"
    /\ ~IsMissing(spec)
    /\ slides' = spec.slides
    /\ pc' = "count"
    /\ UNCHANGED <<spec, topic, slide_count, raised, ret, again>>
    /\ UNCHANGED <<svgVars, wrapVars, pipeVars, dlVars>>

EnforceCount ==
    /\ pc = "count"
    /\ slides' = EnforceCountOp(slides, topic, slide_count)
    /\ pc' = "intro"
    /\ spec' = InputAfter(spec, slides')
    /\ UNCHANGED <<topic, slide_count, raised, ret, again>>
    /\ UNCHANGED <<svgVars, wrapVars, pipeVars, dlVars>>

\* slides[0] of an empty list raises IndexError
ForceIntro ==
    /\ pc = "intro"
    /\ IF slides = <<>>
       THEN Return(Outcome("IndexError", NoSpec)) /\ UNCHANGED slides
       ELSE slides' = ForceIntroOp(slides) /\ pc' = "summary" /\ UNCHANGED <<raised, ret>>
    /\ spec' = InputAfter(spec, slides')
    /\ UNCHANGED <<topic, slide_count, again>>
    /\ UNCHANGED <<svgVars, wrapVars, pipeVars, dlVars>>

ForceSummary ==
    /\ pc = "summary"
    /\ slides' = ForceSummaryOp(slides)
    /\ pc' = "bullets"
    /\ spec' = InputAfter(spec, slides')
    /\ UNCHANGED <<topic, slide_count, raised, ret, again>>
    /\ UNCHANGED <<svgVars, wrapVars, pipeVars, dlVars>>

CoerceBullets ==
    /\ pc = "bullets"
    /\ slides' = CoerceBulletsOp(slides)
    /\ pc' = "flow"
    /\ spec' = InputAfter(spec, slides')
    /\ UNCHANGED <<topic, slide_count, raised, ret, again>>
    /\ UNCHANGED <<svgVars, wrapVars, pipeVars, dlVars>>

\* slides[mid] past the end of the list raises IndexError
EnsureFlow ==
    /\ pc = "flow"
    /\ IF HasFlow(slides)
       THEN pc' = "validate" /\ UNCHANGED <<slides, raised, ret>>
       ELSE IF FlowMid(slides) >= Len(slides)
            THEN Return(Outcome("IndexError", NoSpec)) /\ UNCHANGED slides
            ELSE slides' = ForceFlowOp(slides) /\ pc' = "validate" /\ UNCHANGED <<raised, ret>>
    /\ spec' = InputAfter(spec, slides')
    /\ UNCHANGED <<topic, slide_count, again>>
    /\ UNCHANGED <<svgVars, wrapVars, pipeVars, dlVars>>

Revalidate ==
    /\ pc = "validate"
    /\ Return(RevalidateOp(spec, slides, topic, slide_count))
    /\ UNCHANGED <<spec, topic, slide_count, slides, again>>
    /\ UNCHANGED <<svgVars, wrapVars, pipeVars, dlVars>>

\* the caller normalizes the returned deck once more, same topic and count
NormalizeAgain ==
    /\ pc = "done"
    /\ raised = "none"
    /\ ~again.called
    /\ again' = Called(Normalize(ret, topic, slide_count))
    /\ UNCHANGED <<spec, topic, slide_count, slides, pc, raised, ret>>
    /\ UNCHANGED <<svgVars, wrapVars, pipeVars, dlVars>>

NextNorm ==
    \/ ReturnFallback
    \/ CopySlides
    \/ EnforceCount
    \/ ForceIntro
    \/ ForceSummary
    \/ CoerceBullets
    \/ EnsureFlow
    \/ Revalidate
    \/ NormalizeAgain

SpecNorm == InitNorm /\ [][NextNorm]_vars

\* the stages compose to the whole call
StagesAgree == pc = "done" => Outcome(raised, ret) = Normalize(spec, topic, slide_count)

-----------------------------------------------------------------------------
(* app/diagram/svg_flow.py                                                 *)

pad_x == 100

pad_y == 110

hgap == 80

vgap == 90

box_w == 320

box_h == 110

corner == 18

font_size == 34

line_h == 40

\* _wrap_words(name, max_chars=18)
label_max_chars == 18

\* lines[:3]
max_lines == 3

\* text.split(): the maximal runs of non-whitespace characters
RECURSIVE Words(_)
Words(text) ==
    LET starts == {k \in 1..Len(text) : ~IsSpace(text[k])} IN
    IF starts = {} THEN <<>>
    ELSE LET a == CHOOSE k \in starts : \A j \in starts : k <= j
             stops == {k \in a..Len(text) : IsSpace(text[k])}
             b == IF stops = {} THEN Len(text) + 1
                  ELSE CHOOSE k \in stops : \A j \in stops : k <= j
         IN  <<SubSeq(text, a, b - 1)>> \o Words(SubSeq(text, b, Len(text)))

\* a trial line one character shorter than the budget at most
FitsStrictly(trial, max_chars) == Len(trial) < max_chars

\* not (len(trial) > max_chars)
Fits(trial, max_chars) == ~(Len(trial) > max_chars)

\* every line kept
KeepAllLines(lines) == lines

\* lines[:3]
FirstLines(lines) == PySliceTo(lines, max_lines)

\* the loop of _wrap_words over the remaining words
RECURSIVE WrapLoop(_, _, _, _)
WrapLoop(words, lines, cur, max_chars) ==
    IF words = <<>>
    THEN IF cur # <<>> THEN Append(lines, Join(cur, <<" ">>)) ELSE lines
    ELSE LET w == Head(words)
             trial == Strip(Join(Append(cur, w), <<" ">>))
         IN  IF cur # <<>> /\ ~Fits(trial, max_chars)
             THEN WrapLoop(Tail(words), Append(lines, Join(cur, <<" ">>)), <<w>>, max_chars)
             ELSE WrapLoop(Tail(words), lines, Append(cur, w), max_chars)

_wrap_words(text, max_chars) ==
    IF Words(text) = <<>> THEN << <<>> >>
    ELSE FirstLines(WrapLoop(Words(text), <<>>, <<>>, max_chars))

\* _iter_edges: the edges that are pairs
RECURSIVE _iter_edges(_)
_iter_edges(es) ==
    IF es = <<>> THEN <<>>
    ELSE IF Len(Head(es)) = 2 THEN <<Head(es)>> \o _iter_edges(Tail(es))
    ELSE _iter_edges(Tail(es))

\* four boxes a row whatever the node count
MaxPerRowAlwaysFour(node_count) == 4

\* max_per_row by node count
MaxPerRow(node_count) ==
    IF node_count <= 4 THEN node_count
    ELSE IF node_count <= 6 THEN 3
    ELSE 4

\* math.ceil(a / b) for a >= 0 and b > 0
CeilDiv(a, b) == (a + b - 1) \div b

\* min of two positive fractions <<numerator, denominator>>
FracMin(a, b) == IF a[1] * b[2] <= b[1] * a[2] THEN a ELSE b

\* the layout numbers of one call; max_per_row > 0
Grid(node_count, width_px, height_px) ==
    LET max_per_row == MaxPerRow(node_count)
        cols == Min(max_per_row, Max(node_count, 1))
        rows == Max(1, CeilDiv(node_count, max_per_row))
        needed_w == pad_x * 2 + cols * box_w + (cols - 1) * hgap
        needed_h == pad_y * 2 + rows * box_h + (rows - 1) * vgap
    IN  [null |-> FALSE, max_per_row |-> max_per_row, cols |-> cols, rows |-> rows,
         needed_w |-> needed_w, needed_h |-> needed_h,
         scale |-> FracMin(FracMin(<<width_px, needed_w>>, <<height_px, needed_h>>), <<1, 1>>),
         view_w |-> needed_w, view_h |-> needed_h]

\* every box put in the first row
NodeXYOneRow(i, max_per_row) == <<pad_x + i * (box_w + hgap), pad_y>>

\* the top-left corner of the node at Python index i
NodeXY(i, max_per_row) ==
    <<pad_x + (i % max_per_row) * (box_w + hgap),
      pad_y + (i \div max_per_row) * (box_h + vgap)>>

\* the dict if the first entry of a label were kept
RECURSIVE PlaceFromFirstWins(_, _, _, _)
PlaceFromFirstWins(names, i, max_per_row, d) ==
    IF i >= Len(names) THEN d
    ELSE PlaceFromFirstWins(names, i + 1, max_per_row,
                            d @@ (At(names, i) :> NodeXY(i, max_per_row)))

\* the dict after the loop has run over nodes[i:], a later entry replacing
\* an earlier one with the same label
RECURSIVE PlaceFrom(_, _, _, _)
PlaceFrom(names, i, max_per_row, d) ==
    IF i >= Len(names) THEN d
    ELSE PlaceFrom(names, i + 1, max_per_row,
                   (At(names, i) :> NodeXY(i, max_per_row)) @@ d)

\* nodes.index(name) for a name in nodes
IndexOf(names, name) ==
    (CHOOSE k \in 1..Len(names) : names[k] = name /\ \A j \in 1..(k - 1) : names[j] # name) - 1

\* an edge drawn from the centre of the source box to the centre of the
\* destination box
EdgeLineCenters(e, names, d) ==
    [tag |-> "line", x1 |-> d[e[1]][1] + box_w \div 2, y1 |-> d[e[1]][2] + box_h \div 2,
     x2 |-> d[e[2]][1] + box_w \div 2, y2 |-> d[e[2]][2] + box_h \div 2]

\* the line element of one edge whose endpoints both have a position
EdgeLine(e, names, d) ==
    LET a == d[e[1]]
        b == d[e[2]]
        src_idx == IndexOf(names, e[1])
        dst_idx == IndexOf(names, e[2])
    IN  IF dst_idx > src_idx
        THEN [tag |-> "line", x1 |-> a[1] + box_w, y1 |-> a[2] + box_h \div 2,
              x2 |-> b[1], y2 |-> b[2] + box_h \div 2]
        ELSE IF dst_idx < src_idx
        THEN [tag |-> "line", x1 |-> a[1], y1 |-> a[2] + box_h \div 2,
              x2 |-> b[1] + box_w, y2 |-> b[2] + box_h \div 2]
        ELSE [tag |-> "line", x1 |-> a[1] + box_w \div 2, y1 |-> a[2] + box_h,
              x2 |-> b[1] + box_w \div 2, y2 |-> b[2]]

\* the line elements of the edge loop
RECURSIVE EdgeLines(_, _, _)
EdgeLines(es, names, d) ==
    IF es = <<>> THEN <<>>
    ELSE IF Head(es)[1] \in DOMAIN d /\ Head(es)[2] \in DOMAIN d
         THEN <<EdgeLine(Head(es), names, d)>> \o EdgeLines(Tail(es), names, d)
         ELSE EdgeLines(Tail(es), names, d)

\* the escaping of a text line
XmlEscape(ln) ==
    Replace(Replace(Replace(ln, <<"&">>, <<"&", "a", "m", "p", ";">>),
                    <<"<">>, <<"&", "l", "t", ";">>),
            <<">">>, <<"&", "g", "t", ";">>)

\* the elements of one node with the first baseline one font size below the
\* top of the box
NodeElementsTopAligned(name, d) ==
    LET x == d[name][1]
        y == d[name][2]
        lines == _wrap_words(name, label_max_chars)
    IN  <<[tag |-> "rect", x |-> x, y |-> y, width |-> box_w, height |-> box_h, rx |-> corner],
          [tag |-> "text", x |-> x + box_w \div 2, y |-> y + font_size]>>
        \o [k \in 1..Len(lines) |->
               [tag |-> "tspan", x |-> x + box_w \div 2,
                dy |-> IF k = 1 THEN 0 ELSE line_h, text |-> XmlEscape(lines[k])]]
        \o <<[tag |-> "/text"]>>

\* the rect, the text element, its tspans and the closing tag of one node
NodeElements(name, d) ==
    LET x == d[name][1]
        y == d[name][2]
        lines == _wrap_words(name, label_max_chars)
        block_h == Len(lines) * line_h
        start_y == y + (box_h - block_h) \div 2 + font_size
    IN  <<[tag |-> "rect", x |-> x, y |-> y, width |-> box_w, height |-> box_h, rx |-> corner],
          [tag |-> "text", x |-> x + box_w \div 2, y |-> start_y]>>
        \o [k \in 1..Len(lines) |->
               [tag |-> "tspan", x |-> x + box_w \div 2,
                dy |-> IF k = 1 THEN 0 ELSE line_h, text |-> XmlEscape(lines[k])]]
        \o <<[tag |-> "/text"]>>

\* the svg element, the background rect and the marker definition
HeaderElements(vp, g) ==
    <<[tag |-> "svg", width |-> vp[1], height |-> vp[2],
       view_w |-> g.view_w, view_h |-> g.view_h],
      [tag |-> "background", x |-> 0, y |-> 0, width |-> g.view_w, height |-> g.view_h],
      [tag |-> "defs", marker |-> "arrow"]>>

RECURSIVE AllNodeElements(_, _)
AllNodeElements(names, d) ==
    IF names = <<>> THEN <<>>
    ELSE NodeElements(Head(names), d) \o AllNodeElements(Tail(names), d)

-----------------------------------------------------------------------------
(* app/diagram/flow.py: add_flow_diagram, lengths in EMU (Inches(x) is     *)
(* int(x * 914400))                                                        *)

flow_max_per_row == 4

\* Inches(1.0)
flow_left == 914400

\* Inches(2.0)
flow_top == 1828800

\* Inches(0.4)
flow_hgap == 365760

\* Inches(0.6)
flow_vgap == 548640

\* Inches(2.2)
flow_box_w == 2011680

\* Inches(0.9)
flow_box_h == 822960

\* the rounded rectangle of the node at Python index i
FlowShape(i, name) ==
    [tag |-> "node",
     left |-> flow_left + (i % flow_max_per_row) * (flow_box_w + flow_hgap),
     top |-> flow_top + (i \div flow_max_per_row) * (flow_box_h + flow_vgap),
     width |-> flow_box_w, height |-> flow_box_h, text |-> name]

\* the rectangles of the node loop, in order
FlowNodeShapes(names) == [k \in 1..Len(names) |-> FlowShape(k - 1, names[k])]

\* node_to_shape.get(name): the shape stored last under the label, None if none
NodeToShape(names, name) ==
    LET at == {k \in 1..Len(names) : names[k] = name} IN
    IF at = {} THEN [null |-> TRUE]
    ELSE [null |-> FALSE,
          shape |-> FlowNodeShapes(names)[CHOOSE k \in at : \A j \in at : k >= j]]

\* the edges the loop unpacks before it meets an entry that is no pair
RECURSIVE Unpacked(_)
Unpacked(es) ==
    IF es = <<>> THEN <<>>
    ELSE IF Len(Head(es)) # 2 THEN <<>>
    ELSE <<Head(es)>> \o Unpacked(Tail(es))

\* the straight connector between the centres of the two shapes and, unless
\* the two centres coincide, the arrowhead triangle near the destination; the
\* triangle's place and rotation are functions of the end (bx, by) and of the
\* vector (dx, dy), which stand for them here
FlowConnector(e, names) ==
    LET a == NodeToShape(names, e[1])
        b == NodeToShape(names, e[2])
    IN  IF a.null \/ b.null THEN <<>>
        ELSE LET ax == a.shape.left + a.shape.width \div 2
                 ay == a.shape.top + a.shape.height \div 2
                 bx == b.shape.left + b.shape.width \div 2
                 by == b.shape.top + b.shape.height \div 2
                 conn == [tag |-> "connector", begin_x |-> ax, begin_y |-> ay,
                          end_x |-> bx, end_y |-> by]
             IN  IF bx = ax /\ by = ay THEN <<conn>>
                 ELSE <<conn, [tag |-> "triangle", bx |-> bx, by |-> by,
                               dx |-> bx - ax, dy |-> by - ay]>>

RECURSIVE FlowConnectors(_, _)
FlowConnectors(es, names) ==
    IF es = <<>> THEN <<>>
    ELSE FlowConnector(Head(es), names) \o FlowConnectors(Tail(es), names)

\* the elements a call that returns appends to svg, in order
Document(names, es, vp) ==
    LET g == Grid(Len(names), vp[1], vp[2])
        d == PlaceFrom(names, 0, g.max_per_row, <<>>)
    IN  HeaderElements(vp, g) \o EdgeLines(_iter_edges(es), names, d)
        \o AllNodeElements(names, d) \o <<[tag |-> "/svg"]>>

-----------------------------------------------------------------------------
(* The arguments render_flow_svg is called with.                           *)

\* the labels of a node list
Labels(names) == {names[k] : k \in 1..Len(names)}

\* n pairwise distinct one-word labels
DistinctNodes(n) == [k \in 1..n |-> <<"N">> \o IntToStr(k - 1)]

Viewports == {<<1600, 900>>, <<1600, 700>>}

NodeLists ==
    {DistinctNodes(n) : n \in 0..MaxNodes}
    \cup {FixedDiagram.nodes, MockDiagram.nodes,
          << <<"A">>, <<"A">> >>,
          << <<"A">>, <<"B">>, <<"A">> >>,
          << <<>>, <<" ", " ">>, <<"R", "&", "D", " ", "<", "b", ">">> >>,
          << <<"I","n","d","i","a","n"," ","i","n","d","e","p","e","n","d","e","n","c","e"," ",
               "m","a","r","c","h">>,
             <<"a","n","t","i","d","i","s","e","s","t","a","b","l","i","s","h","m","e","n","t",
               " ","o","f"," ","i","t">>,
             <<"o","n","e"," ","t","w","o"," ","t","h","r","e","e"," ","f","o","u","r"," ","f",
               "i","v","e"," ","s","i","x"," ","s","e","v","e","n"," ","e","i","g","h","t"," ",
               "n","i","n","e"," ","t","e","n"," ","e","l","e","v","e","n"," ","t","w","e","l",
               "v","e"," ","t","h","i","r","t","e","e","n">> >>}

\* consecutive pairs
Chain(names) == [k \in 1..(Len(names) - 1) |-> <<names[k], names[k + 1]>>]

\* a backward edge, a self-loop, a repeated edge, an edge to a label that is
\* no node, and entries that are no pairs
Mixed(names) ==
    LET first == names[1]
        last == names[Len(names)]
        ghost == <<"g", "h", "o", "s", "t">>
    IN  << <<last, first>>, <<first, first>>, <<first, last>>, <<first, last>>,
           <<first, ghost>>, <<ghost, last>>, <<first>>, <<first, last, first>> >>

EdgeLists(names) ==
    IF names = <<>> THEN {<<>>, << <<<<"A">>, <<"B">>>> >>}
    ELSE {<<>>, Chain(names), Mixed(names)}

-----------------------------------------------------------------------------
(* render_flow_svg as a state machine                                      *)

NormIdle ==
    /\ spec = NoSpec
    /\ topic = <<>>
    /\ slide_count = 0
    /\ slides = <<>>
    /\ pc = "idle"
    /\ raised = "none"
    /\ ret = NoSpec
    /\ again = NotCalled

InitSvg ==
    /\ nodes \in NodeLists
    /\ edges \in EdgeLists(nodes)
    /\ viewport \in Viewports
    /\ grid = [null |-> TRUE]
    /\ pos = <<>>
    /\ svg = <<>>
    /\ svg_pc = "start"
    /\ svg_raised = "none"
    /\ shapes = <<>>
    /\ flow_pc = "start"
    /\ flow_raised = "none"
    /\ NormIdle
    /\ WrapIdle
    /\ PipeIdle
    /\ DownloadIdle

\* max_per_row, cols, rows, the canvas and the scale; node_count / max_per_row
\* with max_per_row = 0 raises ZeroDivisionError
ChooseGrid ==
    /\ svg_pc = "start"
    /\ IF MaxPerRow(Len(nodes)) = 0
       THEN svg_pc' = "done" /\ svg_raised' = "ZeroDivisionError" /\ UNCHANGED grid
       ELSE /\ grid' = Grid(Len(nodes), viewport[1], viewport[2])
            /\ svg_pc' = "place"
            /\ UNCHANGED svg_raised
    /\ UNCHANGED <<nodes, edges, viewport, pos, svg>>
    /\ UNCHANGED <<normVars, wrapVars, flowVars, pipeVars, dlVars>>

\* for i, name in enumerate(nodes): pos[name] = (x, y)
PlaceNodes ==
    /\ svg_pc = "place"
    /\ pos' = PlaceFrom(nodes, 0, grid.max_per_row, <<>>)
    /\ svg_pc' = "header"
    /\ UNCHANGED <<nodes, edges, viewport, grid, svg, svg_raised>>
    /\ UNCHANGED <<normVars, wrapVars, flowVars, pipeVars, dlVars>>

\* the svg element, the background rect and the marker definition
EmitHeader ==
    /\ svg_pc = "header"
    /\ svg' = svg \o HeaderElements(viewport, grid)
    /\ svg_pc' = "edges"
    /\ UNCHANGED <<nodes, edges, viewport, grid, pos, svg_raised>>
    /\ UNCHANGED <<normVars, wrapVars, flowVars, pipeVars, dlVars>>

EmitEdges ==
    /\ svg_pc = "edges"
    /\ svg' = svg \o EdgeLines(_iter_edges(edges), nodes, pos)
    /\ svg_pc' = "nodes"
    /\ UNCHANGED <<nodes, edges, viewport, grid, pos, svg_raised>>
    /\ UNCHANGED <<normVars, wrapVars, flowVars, pipeVars, dlVars>>

EmitNodes ==
    /\ svg_pc = "nodes"
    /\ svg' = svg \o AllNodeElements(nodes, pos)
    /\ svg_pc' = "close"
    /\ UNCHANGED <<nodes, edges, viewport, grid, pos, svg_raised>>
    /\ UNCHANGED <<normVars, wrapVars, flowVars, pipeVars, dlVars>>

\* svg.append("</svg>"); the computed scale is not used; return
EmitClose ==
    /\ svg_pc = "close"
    /\ svg' = Append(svg, [tag |-> "/svg"])
    /\ svg_pc' = "done"
    /\ UNCHANGED <<nodes, edges, viewport, grid, pos, svg_raised>>
    /\ UNCHANGED <<normVars, wrapVars, flowVars, pipeVars, dlVars>>

\* add_flow_diagram(slide, nodes, edges): the node loop, then the edge loop;
\* "for src, dst in edges" raises ValueError at an entry that is no pair
AddFlowDiagram ==
    /\ flow_pc = "start"
    /\ shapes' = FlowNodeShapes(nodes) \o FlowConnectors(Unpacked(edges), nodes)
    /\ flow_raised' = IF Unpacked(edges) = edges THEN "none" ELSE "ValueError"
    /\ flow_pc' = "done"
    /\ UNCHANGED <<nodes, edges, viewport, grid, pos, svg, svg_pc, svg_raised>>
    /\ UNCHANGED <<normVars, wrapVars, pipeVars, dlVars>>

NextSvg ==
    \/ ChooseGrid
    \/ PlaceNodes
    \/ EmitHeader
    \/ EmitEdges
    \/ EmitNodes
    \/ EmitClose
    \/ AddFlowDiagram

SpecSvg == InitSvg /\ [][NextSvg]_vars

-----------------------------------------------------------------------------
(* _wrap_words as a state machine, one step per pass of its for loop       *)

\* largest character budget
MaxChars == 19

Budgets == 1..MaxChars

\* the labels of the diagrams above, a label of exactly 18 characters, seven
\* one-letter words, and a label with runs of blanks and a tab
WrapTexts ==
    UNION {Labels(nl) : nl \in NodeLists \ {DistinctNodes(n) : n \in 0..MaxNodes}}
    \cup {<<"i","n","d","e","p","e","n","d","e","n","c","e"," ","m","a","r","c","h">>,
          <<"a"," ","b"," ","c"," ","d"," ","e"," ","f"," ","g">>,
          <<" ","p","a","d","d","e","d"," "," ","w","o","r","d","s","\t","h","e","r","e"," ">>}

InitWrap ==
    /\ wrap_text \in WrapTexts
    /\ wrap_max_chars \in Budgets
    /\ wrap_words = <<>>
    /\ wrap_lines = <<>>
    /\ wrap_cur = <<>>
    /\ wrap_pc = "start"
    /\ wrap_ret = <<>>
    /\ NormIdle
    /\ SvgIdle
    /\ PipeIdle
    /\ DownloadIdle

\* words = [w for w in text.split() if w]; if not words: return [""]
SplitWords ==
    /\ wrap_pc = "start"
    /\ wrap_words' = Words(wrap_text)
    /\ IF Words(wrap_text) = <<>>
       THEN wrap_ret' = << <<>> >> /\ wrap_pc' = "done"
       ELSE wrap_ret' = wrap_ret /\ wrap_pc' = "loop"
    /\ UNCHANGED <<wrap_text, wrap_max_chars, wrap_lines, wrap_cur>>
    /\ UNCHANGED <<normVars, svgVars, pipeVars, dlVars>>

\* one pass of the for loop
WrapWord ==
    /\ wrap_pc = "loop"
    /\ wrap_words # <<>>
    /\ LET w == Head(wrap_words)
           trial == Strip(Join(Append(wrap_cur, w), <<" ">>))
       IN  IF wrap_cur # <<>> /\ ~Fits(trial, wrap_max_chars)
           THEN /\ wrap_lines' = Append(wrap_lines, Join(wrap_cur, <<" ">>))
                /\ wrap_cur' = <<w>>
           ELSE /\ wrap_cur' = Append(wrap_cur, w)
                /\ wrap_lines' = wrap_lines
    /\ wrap_words' = Tail(wrap_words)
    /\ UNCHANGED <<wrap_text, wrap_max_chars, wrap_pc, wrap_ret>>
    /\ UNCHANGED <<normVars, svgVars, pipeVars, dlVars>>

\* if cur: lines.append(" ".join(cur))
FlushCur ==
    /\ wrap_pc = "loop"
    /\ wrap_words = <<>>
    /\ wrap_lines' = IF wrap_cur # <<>> THEN Append(wrap_lines, Join(wrap_cur, <<" ">>))
                     ELSE wrap_lines
    /\ wrap_pc' = "return"
    /\ UNCHANGED <<wrap_text, wrap_max_chars, wrap_words, wrap_cur, wrap_ret>>
    /\ UNCHANGED <<normVars, svgVars, pipeVars, dlVars>>

\* return lines[:3]
ReturnLines ==
    /\ wrap_pc = "return"
    /\ wrap_ret' = FirstLines(wrap_lines)
    /\ wrap_pc' = "done"
    /\ UNCHANGED <<wrap_text, wrap_max_chars, wrap_words, wrap_lines, wrap_cur>>
    /\ UNCHANGED <<normVars, svgVars, pipeVars, dlVars>>

NextWrap ==
    \/ SplitWords
    \/ WrapWord
    \/ FlushCur
    \/ ReturnLines

SpecWrap == InitWrap /\ [][NextWrap]_vars

\* the loop run step by step returns what _wrap_words computes in one go
WrapStepsAgree == wrap_pc = "done" => wrap_ret = _wrap_words(wrap_text, wrap_max_chars)

-----------------------------------------------------------------------------
(* app/planner.py: plan_slides                                             *)

UpperCase == <<"A","B","C","D","E","F","G","H","I","J","K","L","M",
               "N","O","P","Q","R","S","T","U","V","W","X","Y","Z">>

LowerCase == <<"a","b","c","d","e","f","g","h","i","j","k","l","m",
               "n","o","p","q","r","s","t","u","v","w","x","y","z">>

\* t.lower()
Lower(t) ==
    [k \in 1..Len(t) |->
        IF \E i \in 1..26 : UpperCase[i] = t[k]
        THEN LowerCase[CHOOSE i \in 1..26 : UpperCase[i] = t[k]]
        ELSE t[k]]

\* the loop over base_terms: stripped, non-empty, first of each lower-cased key
RECURSIVE DedupTerms(_, _, _)
DedupTerms(base_terms, seen, terms) ==
    IF base_terms = <<>> THEN terms
    ELSE LET t == Strip(Head(base_terms)) IN
         IF t = <<>> \/ Lower(t) \in seen THEN DedupTerms(Tail(base_terms), seen, terms)
         ELSE DedupTerms(Tail(base_terms), seen \cup {Lower(t)}, Append(terms, t))

\* the slides of the model carry no image_subject, image_setting, image_style,
\* so the structured query is empty and the query comes from image_query or,
\* without one, from the title and the keywords
_image_query_for_slide(slide) ==
    LET explicit == Strip(slide.image_query)
        terms == DedupTerms(<<slide.title>> \o slide.keywords, {}, <<>>)
        base == Strip(Join(PySliceTo(terms, 6), <<" ">>))
    IN  IF explicit # <<>> THEN explicit
        ELSE IF slide.type = "flow"
             THEN Strip(base \o <<" ","w","o","r","k","f","l","o","w">>)
        ELSE IF slide.type = "process"
             THEN Strip(base \o <<" ","b","u","s","i","n","e","s","s"," ",
                                  "w","o","r","k","f","l","o","w">>)
        ELSE IF slide.type = "intro"
             THEN Strip(base \o <<" ","a","b","s","t","r","a","c","t"," ",
                                  "b","a","c","k","g","r","o","u","n","d">>)
        ELSE base

\* SlidePlan; image_query None is the empty sequence
SlidePlan(layout, image_query, slide) ==
    [layout |-> layout, image_query |-> image_query, slide |-> slide]

\* the plan of one slide
PlanOf(slide) ==
    IF slide.type = "intro"
    THEN SlidePlan("title_full_image", _image_query_for_slide(slide), slide)
    ELSE IF slide.type = "process"
    THEN SlidePlan("image_left_text_right", _image_query_for_slide(slide), slide)
    ELSE IF slide.type = "flow"
    THEN SlidePlan("diagram_center", <<>>, slide)
    ELSE IF Strip(slide.image_query) # <<>>
    THEN SlidePlan("image_left_text_right", Strip(slide.image_query), slide)
    ELSE SlidePlan("bullets", <<>>, slide)

plan_slides(deck) == [k \in 1..Len(deck.slides) |-> PlanOf(deck.slides[k])]

-----------------------------------------------------------------------------
(* app/pipeline.py: generate_pptx_for_topic, with the loop of build_pptx   *)

\* settings.default_slide_count
default_slide_count == 6

\* int | None
NoCount == [null |-> TRUE]

Count(n) == [null |-> FALSE, value |-> n]

\* slide_count or settings.default_slide_count
CountOrDefault(c) == IF c.null THEN default_slide_count
                     ELSE IF c.value = 0 THEN default_slide_count ELSE c.value

\* the longest deck a provider answers with
MaxRawLen == 1

\* what a provider's answer parses to: PresentationSpec.model_validate accepted it
ProviderDocs ==
    {d \in StructDocs : Len(d.slides) <= MaxRawLen /\ ModelValid(d.slides)}

\* the normalized deck if plan_slides were handed the raw document
PlannedRawDeck(raw, normalized) == raw

\* the argument of plan_slides: the local spec, the normalizer's result
PlannedDeck(raw, normalized) == normalized

\* what layout_diagram_center draws of a diagram: a picture of the SVG when
\* the engine is svg and the conversion gave bytes, native shapes otherwise
Drawn(slide, how) ==
    IF slide.diagram.null THEN [how |-> "none"]
    ELSE [how |-> how, nodes |-> slide.diagram.nodes, edges |-> slide.diagram.edges]

\* one slide of the file: the layout, the slide it shows, whether it got an
\* image, and the diagram drawn on it
BuiltSlide(plan, image, how) ==
    [layout |-> plan.layout, slide |-> plan.slide, image |-> image,
     diagram |-> IF plan.layout = "diagram_center" THEN Drawn(plan.slide, how)
                 ELSE [how |-> "none"]]

InitPipe ==
    /\ pipe_pc = "start"
    /\ pipe_args \in [topic : Topics,
                      slide_count : {NoCount} \cup {Count(n) : n \in SlideCounts},
                      diagram_engine : {"svg", "ppt"}]
    /\ image_search = FALSE
    /\ slide_count_final = 0
    /\ spec_raw = NoSpec
    /\ pipe_spec = NoSpec
    /\ plans = <<>>
    /\ built = <<>>
    /\ pipe_raised = "none"
    /\ NormIdle
    /\ SvgIdle
    /\ WrapIdle
    /\ DownloadIdle

\* slide_count_final and spec_raw: a provider's answer, or the validated mock
\* deck, whose validation error escapes
GenerateSpec ==
    /\ pipe_pc = "start"
    /\ slide_count_final' = CountOrDefault(pipe_args.slide_count)
    /\ \/ /\ spec_raw' \in ProviderDocs
          /\ pipe_pc' = "normalize"
          /\ UNCHANGED pipe_raised
       \/ LET m == FallbackDeck(pipe_args.topic, slide_count_final') IN
          /\ spec_raw' = m.ret
          /\ pipe_raised' = m.raised
          /\ pipe_pc' = IF m.raised = "none" THEN "normalize" ELSE "failed"
    /\ UNCHANGED <<pipe_args, image_search, pipe_spec, plans, built>>
    /\ UNCHANGED <<normVars, svgVars, wrapVars, dlVars>>

\* spec = normalize_presentation_spec(spec_raw, ...); its exception escapes
NormalizeSpec ==
    /\ pipe_pc = "normalize"
    /\ LET out == Normalize(spec_raw, pipe_args.topic, slide_count_final) IN
       /\ pipe_spec' = out.ret
       /\ pipe_raised' = out.raised
       /\ pipe_pc' = IF out.raised = "none" THEN "plan" ELSE "failed"
    /\ UNCHANGED <<pipe_args, image_search, slide_count_final, spec_raw, plans, built>>
    /\ UNCHANGED <<normVars, svgVars, wrapVars, dlVars>>

\* plans = plan_slides(spec)
PlanSlides ==
    /\ pipe_pc = "plan"
    /\ plans' = plan_slides(PlannedDeck(spec_raw, pipe_spec))
    /\ pipe_pc' = "setup"
    /\ UNCHANGED <<pipe_args, image_search, slide_count_final, spec_raw, pipe_spec, built,
                   pipe_raised>>
    /\ UNCHANGED <<normVars, svgVars, wrapVars, dlVars>>

\* cache, image_search (only with an access key) and theme
SetUpImages ==
    /\ pipe_pc = "setup"
    /\ image_search' \in BOOLEAN
    /\ pipe_pc' = "build"
    /\ UNCHANGED <<pipe_args, slide_count_final, spec_raw, pipe_spec, plans, built,
                   pipe_raised>>
    /\ UNCHANGED <<normVars, svgVars, wrapVars, dlVars>>

\* build_pptx, one turn of for plan in slide_plans: the image search gives
\* bytes or nothing, the diagram is drawn by the engine
BuildSlide ==
    /\ pipe_pc = "build"
    /\ Len(built) < Len(plans)
    /\ LET plan == plans[Len(built) + 1] IN
       \E image \in BOOLEAN, how \in {"picture", "shapes"} :
           /\ image => (plan.image_query # <<>> /\ image_search)
           /\ (how = "picture") => pipe_args.diagram_engine = "svg"
           /\ built' = Append(built, BuiltSlide(plan, image, how))
    /\ UNCHANGED <<pipe_pc, pipe_args, image_search, slide_count_final, spec_raw, pipe_spec,
                   plans, pipe_raised>>
    /\ UNCHANGED <<normVars, svgVars, wrapVars, dlVars>>

\* prs.save(out_path) and the return of the path
SavePptx ==
    /\ pipe_pc = "build"
    /\ Len(built) = Len(plans)
    /\ pipe_pc' = "done"
    /\ UNCHANGED <<pipe_args, image_search, slide_count_final, spec_raw, pipe_spec, plans,
                   built, pipe_raised>>
    /\ UNCHANGED <<normVars, svgVars, wrapVars, dlVars>>

NextPipe ==
    \/ GenerateSpec
    \/ NormalizeSpec
    \/ PlanSlides
    \/ SetUpImages
    \/ BuildSlide
    \/ SavePptx

SpecPipe == InitPipe /\ [][NextPipe]_vars

-----------------------------------------------------------------------------
(* app/images/unsplash.py: UnsplashImageSearch.download, with the file     *)
(* cache of app/images/cache.py                                            *)

\* the urls downloaded and the bodies the server answers with ("" is empty)
Urls == {"u1", "u2"}

Bodies == {"", "jpeg", "png"}

\* the ways a request fails with a RequestException
RequestErrors == {"Timeout", "HTTPError"}

\* the return value of ImageCache.get for a key without a file
None == "None"

\* for attempt in range(3)
max_attempts == 3

\* an empty cache directory
EmptyCache == [u \in Urls |-> None]

\* ImageCache.get(key): the bytes of the key's file, None without a file
CacheGet(c, key) == c[key]

\* the cache if set wrote nothing
CacheSetNothing(c, key, bytes) == c

\* ImageCache.set(key, data): the key's file holds data
CacheSet(c, key, bytes) == [c EXCEPT ![key] = bytes]

\* one HTTP request and how it ended
Request(url, result, body) == [url |-> url, result |-> result, body |-> body]

InitDownload ==
    /\ cache = EmptyCache
    /\ dl_pc = "idle"
    /\ dl_url = ""
    /\ attempt = 0
    /\ data = ""
    /\ http = <<>>
    /\ dl_ret = ""
    /\ dl_raised = "none"
    /\ NormIdle
    /\ SvgIdle
    /\ WrapIdle
    /\ PipeIdle

\* download(url) is called, the first time or after the call before it ended
CallDownload ==
    /\ dl_pc \in {"idle", "done"}
    /\ \E url \in Urls : dl_url' = url
    /\ dl_pc' = "get"
    /\ attempt' = 0
    /\ data' = ""
    /\ http' = <<>>
    /\ dl_ret' = ""
    /\ dl_raised' = "none"
    /\ UNCHANGED cache
    /\ UNCHANGED <<normVars, svgVars, wrapVars, pipeVars>>

\* cached = self.cache.get(url); if cached is not None: return cached
LookUpCache ==
    /\ dl_pc = "get"
    /\ IF CacheGet(cache, dl_url) # None
       THEN dl_ret' = CacheGet(cache, dl_url) /\ dl_pc' = "done"
       ELSE dl_pc' = "request" /\ UNCHANGED dl_ret
    /\ UNCHANGED <<cache, dl_url, attempt, data, http, dl_raised>>
    /\ UNCHANGED <<normVars, svgVars, wrapVars, pipeVars>>

\* requests.get and raise_for_status pass: data = r.content; break
RequestSucceeds ==
    /\ dl_pc = "request"
    /\ attempt < max_attempts
    /\ \E body \in Bodies :
          /\ http' = Append(http, Request(dl_url, "ok", body))
          /\ data' = body
    /\ dl_pc' = "set"
    /\ UNCHANGED <<cache, dl_url, attempt, dl_ret, dl_raised>>
    /\ UNCHANGED <<normVars, svgVars, wrapVars, pipeVars>>

\* a RequestException: last_err = e, sleep, and the next attempt
RequestFails ==
    /\ dl_pc = "request"
    /\ attempt < max_attempts
    /\ \E err \in RequestErrors : http' = Append(http, Request(dl_url, err, ""))
    /\ attempt' = attempt + 1
    /\ UNCHANGED <<cache, dl_pc, dl_url, data, dl_ret, dl_raised>>
    /\ UNCHANGED <<normVars, svgVars, wrapVars, pipeVars>>

\* the else of the for loop: raise last_err
RaiseLastError ==
    /\ dl_pc = "request"
    /\ attempt = max_attempts
    /\ dl_raised' = http[Len(http)].result
    /\ dl_pc' = "done"
    /\ UNCHANGED <<cache, dl_url, attempt, data, http, dl_ret>>
    /\ UNCHANGED <<normVars, svgVars, wrapVars, pipeVars>>

\* self.cache.set(url, data)
WriteCache ==
    /\ dl_pc = "set"
    /\ cache' = CacheSet(cache, dl_url, data)
    /\ dl_pc' = "return"
    /\ UNCHANGED <<dl_url, attempt, data, http, dl_ret, dl_raised>>
    /\ UNCHANGED <<normVars, svgVars, wrapVars, pipeVars>>

\* return data
ReturnData ==
    /\ dl_pc = "return"
    /\ dl_ret' = data
    /\ dl_pc' = "done"
    /\ UNCHANGED <<cache, dl_url, attempt, data, http, dl_raised>>
    /\ UNCHANGED <<normVars, svgVars, wrapVars, pipeVars>>

NextDownload ==
    \/ CallDownload
    \/ LookUpCache
    \/ RequestSucceeds
    \/ RequestFails
    \/ RaiseLastError
    \/ WriteCache
    \/ ReturnData

SpecDownload == InitDownload /\ [][NextDownload]_vars

-----------------------------------------------------------------------------
(* Properties of normalize_presentation_spec                               *)

Returned == pc = "done" /\ raised = "none"

LastSlide(deck) == deck.slides[Len(deck.slides)]

\* C1: the call is total: whatever the document and the slide_count
\* (0, 1 and 2 included), it returns a deck and no exception escapes.
C1_NoExceptionEscapes == pc = "done" => raised = "none"

\* C2: for slide_count >= 3 the returned deck has exactly slide_count slides.
C2_ExactLength ==
    (pc = "done" /\ slide_count >= 3) =>
        (raised = "none" /\ Len(ret.slides) = slide_count)

\* a longer input was truncated and a shorter one padded
C2_Witness ==
    /\ Returned /\ slide_count >= 3 /\ ~IsMissing(spec)
    /\ Len(spec.slides) > slide_count
    /\ Len(ret.slides) = slide_count

\* C3: for slide_count >= 3 the last slide of the returned deck has role
\* summary, for the repaired deck and for the fallback deck alike.
C3_LastIsSummary ==
    (pc = "done" /\ slide_count >= 3) =>
        (raised = "none" /\ LastSlide(ret).type = "summary")

\* C4: for slide_count >= 3 the first slide of the returned deck has role intro.
C4_FirstIsIntro ==
    (pc = "done" /\ slide_count >= 3) =>
        (raised = "none" /\ ret.slides[1].type = "intro")

\* an input whose first slide was a flow slide with a diagram came back as intro
C4_Witness ==
    /\ Returned /\ slide_count >= 3 /\ ~IsMissing(spec)
    /\ spec.slides[1].type = "flow" /\ ~spec.slides[1].diagram.null
    /\ ret.slides[1].type = "intro"
    /\ ret.slides[1].title = spec.slides[1].title

\* C5: for slide_count >= 3 the returned deck holds a slide of role flow
\* with a non-null diagram.
C5_HasFlowWithDiagram ==
    (pc = "done" /\ slide_count >= 3) =>
        /\ raised = "none"
        /\ \E k \in 1..Len(ret.slides) :
              ret.slides[k].type = "flow" /\ ~ret.slides[k].diagram.null

\* the input's only flow slides sat first, last or past the truncation point,
\* and the repaired deck (not the fallback) has the forced flow slide
C5_Witness ==
    /\ Returned /\ slide_count >= 3 /\ ~IsMissing(spec)
    /\ Len(spec.slides) > slide_count
    /\ spec.slides[Len(spec.slides)].type = "flow"
    /\ ~spec.slides[Len(spec.slides)].diagram.null
    /\ \A k \in 2..(slide_count - 1) : spec.slides[k].type # "flow"
    /\ ret.title = spec.title
    /\ \E k \in 2..(slide_count - 1) :
          ret.slides[k].type = "flow" /\ ret.slides[k].diagram = FixedDiagram

\* a newline-delimited list of 1..8 non-empty "- " lines of at most 120 characters
IsBulletList(content) ==
    LET lines == Split(content, "\n") IN
    /\ Len(lines) >= 1
    /\ Len(lines) <= MaxBullets
    /\ \A k \in 1..Len(lines) :
          /\ lines[k] # <<>>
          /\ StartsWith(lines[k], HyphenPrefix)
          /\ Len(lines[k]) <= MaxBulletChars

\* C6: in every returned deck, repaired or fallback, the content of every
\* process or summary slide is a bullet list in the sense of IsBulletList.
C6_BulletLists ==
    Returned =>
        \A k \in 1..Len(ret.slides) :
            ret.slides[k].type \in {"process", "summary"} => IsBulletList(ret.slides[k].content)

\* C7: normalizing the returned deck again, with the same topic and
\* slide_count, returns the same deck, content strings included.
C7_Idempotent == again.called => (again.raised = "none" /\ again.ret = ret)

\* C8: for a null or empty document and every slide_count the call returns
\* the synthetic deck: slide_count slides, the first intro, the last summary,
\* and a flow slide with a diagram in it.
C8_FallbackDeckShape ==
    (pc = "done" /\ IsMissing(spec)) =>
        /\ raised = "none"
        /\ Len(ret.slides) = slide_count
        /\ ret.slides[1].type = "intro"
        /\ LastSlide(ret).type = "summary"
        /\ \E k \in 1..Len(ret.slides) :
              ret.slides[k].type = "flow" /\ ~ret.slides[k].diagram.null

\* C15: in every returned deck every slide of role flow has a non-null
\* diagram, not just one of them.
C15_EveryFlowHasDiagram ==
    Returned =>
        \A k \in 1..Len(ret.slides) :
            ret.slides[k].type = "flow" => ~ret.slides[k].diagram.null

CountEnforced == pc = "intro" /\ raised = "none"

\* C23: for an input of m >= 1 slides and slide_count n, after the count is
\* enforced the list holds the first n input slides in their order if m > n;
\* if m < n it holds the m input slides followed by n - m padding slides,
\* each of role process, titled 'Step k' with k its 0-based position, with
\* four '- Key point' bullets as content and the topic among its keywords.
C23_TruncateOrPad ==
    CountEnforced =>
        LET m == Len(spec.slides)
            n == slide_count
            bullet == <<"-"," ","K","e","y"," ","p","o","i","n","t">>
        IN  /\ m > n => slides = SubSeq(spec.slides, 1, n)
            /\ m <= n =>
                  /\ Len(slides) = n
                  /\ \A k \in 1..m : slides[k] = spec.slides[k]
                  /\ \A k \in (m + 1)..n :
                        /\ slides[k].type = "process"
                        /\ slides[k].title = <<"S","t","e","p"," ">> \o IntToStr(k - 1)
                        /\ Split(slides[k].content, "\n") = <<bullet, bullet, bullet, bullet>>
                        /\ \E j \in 1..Len(slides[k].keywords) : slides[k].keywords[j] = topic
                        /\ slides[k].diagram.null

\* a deck of two slides padded to five or more
C23_Witness ==
    /\ CountEnforced
    /\ Len(spec.slides) = 2
    /\ slide_count >= 5
    /\ Len(slides) = slide_count
    /\ slides[3].title = <<"S","t","e","p"," ","2">>
    /\ slides[5].title = <<"S","t","e","p"," ","4">>

\* a deck of four slides cut to its first two
TruncatedWitness ==
    /\ CountEnforced
    /\ Len(spec.slides) = 4
    /\ slide_count = 2
    /\ slides = <<spec.slides[1], spec.slides[2]>>

\* the call got a document that has slides and meets the constraints of the
\* models (every diagram has a node), and it returned
ReturnedForValidInput ==
    /\ Returned
    /\ ~IsMissing(spec)
    /\ ModelValid(spec.slides)

\* C24: for a non-null input and slide_count >= 3 the returned slide 0 is the
\* input's slide 0 with the role intro: title, content, keywords, image
\* fields and diagram are the input's, whatever role the slide had, and its
\* content is not turned into bullets.
C24_IntroIsRoleChangeOnly ==
    (pc = "done" /\ ~IsMissing(spec) /\ ModelValid(spec.slides) /\ slide_count >= 3) =>
        /\ raised = "none"
        /\ ret.slides[1] = [spec.slides[1] EXCEPT !.type = "intro"]

\* slide 0 came as a flow slide with a diagram, and as a process slide whose
\* content is no bullet list: both came back as intro and otherwise as given
C24_Witness ==
    /\ ReturnedForValidInput /\ slide_count >= 3
    /\ \/ /\ spec.slides[1].type = "flow"
          /\ ~spec.slides[1].diagram.null
          /\ ret.slides[1].diagram = spec.slides[1].diagram
       \/ /\ spec.slides[1].type = "process"
          /\ ~StartsWith(spec.slides[1].content, HyphenPrefix)
          /\ ret.slides[1].content = spec.slides[1].content
    /\ ret.slides[1].type = "intro"

SummaryLabel == <<"S","u","m","m","a","r","y">>

\* C25: for a non-null input and slide_count >= 3 the last slide of the
\* returned deck has role summary and the title 'Summary', whatever title and
\* role the slide in that position had before.
C25_LastTitleIsSummary ==
    (pc = "done" /\ ~IsMissing(spec) /\ ModelValid(spec.slides) /\ slide_count >= 3) =>
        /\ raised = "none"
        /\ LastSlide(ret).type = "summary"
        /\ LastSlide(ret).title = SummaryLabel

\* C25 as the code has it: the last slide has role summary; its title is
\* 'Summary' when the slide in that position (an input slide or a padding
\* slide) did not have role summary, and the title it came with when it was
\* a summary slide already.
C25_TitleOverriddenWhenRoleForced ==
    (pc = "done" /\ ~IsMissing(spec) /\ ModelValid(spec.slides) /\ slide_count >= 3) =>
        /\ raised = "none"
        /\ LastSlide(ret).type = "summary"
        /\ IF Len(spec.slides) >= slide_count /\ spec.slides[slide_count].type = "summary"
           THEN LastSlide(ret).title = spec.slides[slide_count].title
           ELSE LastSlide(ret).title = SummaryLabel

\* the slide in the last position came as a process slide under another
\* title and went out as the summary slide titled 'Summary'
C25_Witness ==
    /\ ReturnedForValidInput /\ slide_count >= 3
    /\ Len(spec.slides) >= slide_count
    /\ spec.slides[slide_count].type = "process"
    /\ spec.slides[slide_count].title # SummaryLabel
    /\ LastSlide(ret).type = "summary"
    /\ LastSlide(ret).title = SummaryLabel

\* the contents have been coerced and the flow slide has not been ensured yet
BulletsCoerced == pc = "flow" /\ raised = "none"

\* the non-empty trimmed pieces of a text between periods
Fragments(text) == StripNonEmpty(Split(text, "."))

\* the non-empty trimmed lines of a text
NonEmptyLines(text) == StripNonEmpty(Split(text, "\n"))

HasMarker(ln) == StartsWith(ln, HyphenPrefix) \/ StartsWith(ln, BulletPrefix)

\* the input slides strictly between the first and the last position of the
\* list, whose role the forcing of the first and last slide leaves alone
InteriorInputSlides == 2..Min(Len(spec.slides), Len(slides) - 1)

\* the lines C26 states for a content
StatedBullets(content) ==
    LET t == Strip(content) IN
    IF ~Contains(t, "\n")
    THEN IF Len(Fragments(t)) >= 2
         THEN [i \in 1..Min(Len(Fragments(t)), 6) |-> HyphenPrefix \o Fragments(t)[i]]
         ELSE <<HyphenPrefix \o t>>
    ELSE [i \in 1..Min(Len(NonEmptyLines(t)), 8) |->
             IF HasMarker(NonEmptyLines(t)[i])
             THEN HyphenPrefix \o SubSeq(NonEmptyLines(t)[i], 3, Len(NonEmptyLines(t)[i]))
             ELSE HyphenPrefix \o NonEmptyLines(t)[i]]

\* C26: a process or summary slide whose trimmed content is one line with
\* k >= 2 non-empty period-separated fragments gets min(k, 6) lines, line i
\* being '- ' and the i-th trimmed fragment; with fewer than 2 fragments the
\* whole content becomes one '- ' bullet; a content of several lines keeps
\* its non-empty lines, the first 8 at most, each with the '- ' prefix
\* (stated here for the contents that are not blank).
C26_BulletCoercion ==
    BulletsCoerced =>
        \A k \in InteriorInputSlides :
            (spec.slides[k].type \in {"process", "summary"}
               /\ Strip(spec.slides[k].content) # <<>>) =>
                Split(slides[k].content, "\n") = StatedBullets(spec.slides[k].content)

\* the lines the coercion gives a content: the bullet character is taken out
\* of a one-line content before it is cut at periods, an empty content gets
\* the four placeholder bullets, and in a line that starts with a marker
\* every bullet-and-space is replaced by hyphen-and-space
CoercedBullets(content) ==
    LET t == Strip(content)
        bare == Replace(t, <<BULLET>>, <<>>)
    IN  IF t = <<>>
        THEN [i \in 1..4 |-> <<"-"," ","K","e","y"," ","p","o","i","n","t">>]
        ELSE IF ~Contains(t, "\n")
        THEN IF Len(Fragments(bare)) >= 2
             THEN [i \in 1..Min(Len(Fragments(bare)), 6) |-> HyphenPrefix \o Fragments(bare)[i]]
             ELSE <<Replace(HyphenPrefix \o t, BulletPrefix, HyphenPrefix)>>
        ELSE [i \in 1..Min(Len(NonEmptyLines(t)), 8) |->
                 IF HasMarker(NonEmptyLines(t)[i])
                 THEN Replace(NonEmptyLines(t)[i], BulletPrefix, HyphenPrefix)
                 ELSE HyphenPrefix \o NonEmptyLines(t)[i]]

\* C26 as the code has it, for every input slide that has role process or
\* summary once the first and last roles are forced
C26_BulletCoercionAsCoded ==
    BulletsCoerced =>
        \A k \in 1..Min(Len(spec.slides), Len(slides)) :
            slides[k].type \in {"process", "summary"} =>
                Split(slides[k].content, "\n") = CoercedBullets(spec.slides[k].content)

\* 'Step one. Step two. Step three.' on a process slide became three bullets
C26_Witness ==
    /\ BulletsCoerced
    /\ Len(spec.slides) = 2 /\ Len(slides) >= 3
    /\ spec.slides[2].type = "process"
    /\ Len(Fragments(spec.slides[2].content)) = 3
    /\ Split(slides[2].content, "\n") =
          << <<"-"," ","S","t","e","p"," ","o","n","e">>,
             <<"-"," ","S","t","e","p"," ","t","w","o">>,
             <<"-"," ","S","t","e","p"," ","t","h","r","e","e">> >>

\* the step that ensures the flow slide, taken without an exception
EnsureFlowStep == pc = "flow" /\ pc' = "validate"

SomeFlowWithDiagram(ss) == \E k \in 1..Len(ss) : ss[k].type = "flow" /\ ~ss[k].diagram.null

\* the step converts exactly the slide at index max(1, min(n - 2, n div 2)),
\* to role flow with the diagram Input -> Step 1 -> Step 2 -> Output -> Result
ConvertsMiddleSlide ==
    LET n == Len(slides)
        mid == Max(1, Min(n - 2, n \div 2))
        label == << <<"I","n","p","u","t">>, <<"S","t","e","p"," ","1">>,
                    <<"S","t","e","p"," ","2">>, <<"O","u","t","p","u","t">>,
                    <<"R","e","s","u","l","t">> >>
    IN  /\ Len(slides') = n
        /\ \A k \in 1..n : k # mid + 1 => slides'[k] = slides[k]
        /\ slides'[mid + 1].type = "flow"
        /\ slides'[mid + 1].diagram.nodes = label
        /\ slides'[mid + 1].diagram.edges = [k \in 1..4 |-> <<label[k], label[k + 1]>>]
        /\ slides'[mid + 1].content = slides[mid + 1].content

\* the converted index is neither the first nor the last of the list
MiddleIsInterior ==
    LET n == Len(slides)
        mid == Max(1, Min(n - 2, n \div 2))
    IN  mid # 0 /\ mid # n - 1

-----------------------------------------------------------------------------
(* Properties of render_flow_svg                                           *)

Distinct(names) == \A i, j \in 1..Len(names) : names[i] = names[j] => i = j

\* the node boxes of the returned document, in order
Boxes(doc) == SelectSeq(doc, LAMBDA e : e.tag = "rect")

\* the x-intervals or the y-intervals of two boxes are disjoint
BoxesDisjoint(a, b) ==
    \/ a.x + a.width <= b.x
    \/ b.x + b.width <= a.x
    \/ a.y + a.height <= b.y
    \/ b.y + b.height <= a.y

\* C9: for 0..20 pairwise distinct labels the call lays out exactly one
\* 320x110 box per node, and no two boxes overlap.
C9_BoxesCountedAndDisjoint ==
    (svg_pc = "done" /\ Distinct(nodes) /\ Len(nodes) <= 20) =>
        /\ svg_raised = "none"
        /\ Len(Boxes(svg)) = Len(nodes)
        /\ Cardinality(DOMAIN pos) = Len(nodes)
        /\ \A k \in 1..Len(nodes) :
              /\ Boxes(svg)[k].width = 320 /\ Boxes(svg)[k].height = 110
              /\ Boxes(svg)[k].x = pos[nodes[k]][1] /\ Boxes(svg)[k].y = pos[nodes[k]][2]
        /\ \A i, j \in 1..Len(nodes) :
              i # j => BoxesDisjoint(Boxes(svg)[i], Boxes(svg)[j])

\* C10: for every node list and edge list the call raises nothing and
\* returns a complete document: the svg element, the background, the marker
\* definition, and the closing tag last.
C10_CompleteDocument ==
    svg_pc = "done" =>
        /\ svg_raised = "none"
        /\ Len(svg) >= 4
        /\ svg[1].tag = "svg"
        /\ svg[2].tag = "background"
        /\ svg[3].tag = "defs"
        /\ svg[Len(svg)].tag = "/svg"

\* the line elements of the returned document, in order
Lines(doc) == SelectSeq(doc, LAMBDA e : e.tag = "line")

\* the entries of the edge list that are pairs of labels of the node list
RECURSIVE ValidEdges(_, _)
ValidEdges(es, names) ==
    IF es = <<>> THEN <<>>
    ELSE IF Len(Head(es)) = 2 /\ Head(es)[1] \in Labels(names) /\ Head(es)[2] \in Labels(names)
         THEN <<Head(es)>> \o ValidEdges(Tail(es), names)
         ELSE ValidEdges(Tail(es), names)

\* the two ends of a line element
Ends(ln) == <<ln.x1, ln.y1, ln.x2, ln.y2>>

\* C11: for every node list and edge list the call raises nothing and the
\* document holds exactly one line element per edge whose two labels occur in
\* the node list, in edge-list order, repeated edges counted separately; an
\* edge with a missing endpoint gives no line element.
C11_OneLinePerValidEdge ==
    svg_pc = "done" =>
        /\ svg_raised = "none"
        /\ Len(Lines(svg)) = Len(ValidEdges(edges, nodes))
        /\ \A k \in 1..Len(Lines(svg)) :
              Lines(svg)[k] = EdgeLine(ValidEdges(edges, nodes)[k], nodes, pos)

\* the same for the calls that return a document
EdgeLinesWhenReturned ==
    (svg_pc = "done" /\ svg_raised = "none") =>
        /\ Len(Lines(svg)) = Len(ValidEdges(edges, nodes))
        /\ \A k \in 1..Len(Lines(svg)) :
              Lines(svg)[k] = EdgeLine(ValidEdges(edges, nodes)[k], nodes, pos)

\* the top-left corner of the box of a label that occurs once in the node list
Corner(name) == NodeXY(IndexOf(nodes, name), MaxPerRow(Len(nodes)))

\* the anchors the routing rule gives the edge e between two boxes
Anchors(e) ==
    LET a == Corner(e[1])
        b == Corner(e[2])
        srcIdx == IndexOf(nodes, e[1])
        dstIdx == IndexOf(nodes, e[2])
    IN  IF dstIdx > srcIdx THEN <<a[1] + 320, a[2] + 55, b[1], b[2] + 55>>
        ELSE IF dstIdx < srcIdx THEN <<a[1], a[2] + 55, b[1] + 320, b[2] + 55>>
        ELSE <<a[1] + 160, a[2] + 110, a[1] + 160, a[2]>>

\* C12: with distinct labels, every rendered edge runs right-middle to
\* left-middle when the destination comes later in the node list, left-middle
\* to right-middle when it comes earlier, and bottom-middle to top-middle of
\* the same box when source and destination are the same node.
C12_AnchorsByIndexOrder ==
    (svg_pc = "done" /\ svg_raised = "none" /\ Distinct(nodes)) =>
        \A k \in 1..Len(Lines(svg)) :
            Ends(Lines(svg)[k]) = Anchors(ValidEdges(edges, nodes)[k])

\* a document with a forward, a backward and a self-loop line between boxes
\* of a grid of more than one row
C12_Witness ==
    /\ svg_pc = "done" /\ svg_raised = "none" /\ Distinct(nodes)
    /\ grid.rows >= 2
    /\ \E i, j, k \in 1..Len(Lines(svg)) :
          /\ Lines(svg)[i].x1 < Lines(svg)[i].x2 /\ Lines(svg)[i].y1 < Lines(svg)[i].y2
          /\ Lines(svg)[j].y1 > Lines(svg)[j].y2 /\ Lines(svg)[j].x1 # Lines(svg)[j].x2
          /\ Lines(svg)[k].x1 = Lines(svg)[k].x2 /\ Lines(svg)[k].y1 = Lines(svg)[k].y2 + 110

\* the steps of the call append what Document computes in one go
DocumentAgrees ==
    (svg_pc = "done" /\ svg_raised = "none") => svg = Document(nodes, edges, viewport)

\* the fit scale of the call is below 1
ScaledDown == ~grid.null /\ grid.scale[1] < grid.scale[2]

\* what a document says about the canvas and the shapes on it: every element
\* but the requested pixel size on the svg element
Geometry(doc) ==
    [k \in 1..Len(doc) |->
        IF doc[k].tag = "svg"
        THEN [tag |-> "svg", view_w |-> doc[k].view_w, view_h |-> doc[k].view_h]
        ELSE doc[k]]

\* C14: when the canvas needed is larger than the viewport asked for (fit
\* scale below 1) the scale is applied: the viewBox, the positions or the box
\* sizes emitted differ from those emitted for the same diagram at scale 1.
C14_ScaleApplied ==
    (svg_pc = "done" /\ svg_raised = "none" /\ ScaledDown) =>
        Geometry(svg) # Geometry(Document(nodes, edges, <<grid.needed_w, grid.needed_h>>))

\* the rounded rectangles add_flow_diagram added for the nodes, in order
NodeShapes(added) == SelectSeq(added, LAMBDA e : e.tag = "node")

\* <<row, column>> of a box of the vector document
SvgCell(rect) == <<(rect.y - 110) \div 200, (rect.x - 100) \div 400>>

\* <<row, column>> of a rectangle of the shape backend
FlowCell(shape) ==
    <<(shape.top - flow_top) \div (flow_box_h + flow_vgap),
      (shape.left - flow_left) \div (flow_box_w + flow_hgap)>>

\* C16: the two backends lay out alike: for every list of distinct labels
\* and every i, add_flow_diagram puts node i in the grid cell (row, column)
\* render_flow_svg puts it in.
C16_BackendsSameCells ==
    (flow_pc = "done" /\ svg_pc = "done" /\ svg_raised = "none" /\ Distinct(nodes)) =>
        /\ Len(NodeShapes(shapes)) = Len(Boxes(svg))
        /\ \A k \in 1..Len(nodes) :
              FlowCell(NodeShapes(shapes)[k]) = SvgCell(Boxes(svg)[k])

\* the same for the node counts at which both backends use the row length 4
\* or a single row
SameCellsOutsideFiveSix ==
    (flow_pc = "done" /\ svg_pc = "done" /\ svg_raised = "none" /\ Distinct(nodes)
       /\ Len(nodes) \notin {5, 6}) =>
        \A k \in 1..Len(nodes) :
            FlowCell(NodeShapes(shapes)[k]) = SvgCell(Boxes(svg)[k])

\* the columns-per-row value c of a node count
ColumnsPerRow(nodeCount) ==
    IF nodeCount <= 4 THEN nodeCount
    ELSE IF nodeCount \in {5, 6} THEN 3
    ELSE 4

\* C18: c is nodeCount up to 4 nodes, 3 for 5 or 6 and 4 from 7 on, and
\* node i (labels distinct) has its box at row i div c, column i mod c, that
\* is at (100 + col*400, 110 + row*200); the list Input, Step 1, Step 2,
\* Output, Result has c = 3, 2 rows, Input at (row 0, col 0) and Output at
\* (row 1, col 0).
C18_ColumnsAndCells ==
    /\ ~grid.null => grid.max_per_row = ColumnsPerRow(Len(nodes))
    /\ (svg_pc = "done" /\ svg_raised = "none" /\ Distinct(nodes)) =>
          \A i \in 0..(Len(nodes) - 1) :
              LET c == ColumnsPerRow(Len(nodes))
                  row == i \div c
                  col == i % c
              IN  /\ pos[At(nodes, i)] = <<100 + col * 400, 110 + row * 200>>
                  /\ Boxes(svg)[i + 1].x = 100 + col * 400
                  /\ Boxes(svg)[i + 1].y = 110 + row * 200
    /\ (svg_pc = "done" /\ nodes = FixedDiagram.nodes) =>
          /\ grid.max_per_row = 3
          /\ grid.rows = 2
          /\ SvgCell(Boxes(svg)[1]) = <<0, 0>>
          /\ SvgCell(Boxes(svg)[4]) = <<1, 0>>

\* the five-node list rendered, its fourth box first in the second row
C18_Witness ==
    /\ svg_pc = "done" /\ svg_raised = "none"
    /\ nodes = FixedDiagram.nodes
    /\ Boxes(svg)[4].x = 100 /\ Boxes(svg)[4].y = 310
    /\ Boxes(svg)[3].x = 900 /\ Boxes(svg)[3].y = 110

\* C19: for nodeCount >= 1 every box lies inside the canvas of width
\* 200 + cols*320 + (cols-1)*80 and height 220 + rows*110 + (rows-1)*90, at
\* least 100 from its left and right border and 110 from its top and bottom,
\* with cols = min(c, max(nodeCount, 1)) and rows = ceil(nodeCount / c).
C19_BoxesInsideCanvas ==
    (svg_pc = "done" /\ Len(nodes) >= 1) =>
        LET c == ColumnsPerRow(Len(nodes))
            cols == Min(c, Max(Len(nodes), 1))
            rows == (Len(nodes) + c - 1) \div c
            width == 2 * 100 + cols * 320 + (cols - 1) * 80
            height == 2 * 110 + rows * 110 + (rows - 1) * 90
        IN  /\ svg_raised = "none"
            /\ svg[1].view_w = width /\ svg[1].view_h = height
            /\ svg[2].width = width /\ svg[2].height = height
            /\ Len(Boxes(svg)) = Len(nodes)
            /\ \A k \in 1..Len(Boxes(svg)) :
                  /\ Boxes(svg)[k].x >= 100
                  /\ Boxes(svg)[k].x + Boxes(svg)[k].width <= width - 100
                  /\ Boxes(svg)[k].y >= 110
                  /\ Boxes(svg)[k].y + Boxes(svg)[k].height <= height - 110

\* a grid of several rows whose last box of the first row ends exactly at the
\* right padding and whose last box ends exactly at the bottom padding
C19_Witness ==
    /\ svg_pc = "done" /\ svg_raised = "none"
    /\ Len(nodes) >= 7
    /\ Boxes(svg)[4].x + 320 = svg[1].view_w - 100
    /\ Boxes(svg)[Len(nodes)].y + 110 = svg[1].view_h - 110

\* the number of tspan lines of the text element at index j of the document
LinesOfText(doc, j) ==
    LET closes == {h \in (j + 1)..Len(doc) : doc[h].tag = "/text"}
    IN  (CHOOSE h \in closes : \A g \in closes : h <= g) - j - 1

\* C21: a node with k wrapped lines (1..3) has its first baseline at
\* y + (110 - 40k)/2 + 34, which leaves the same space above and below the
\* block of k line heights in the 110-high box, and the text element and
\* every line of it are anchored at the box midpoint x + 160.
C21_TextCentred ==
    (svg_pc = "done" /\ svg_raised = "none") =>
        \A j \in 1..Len(svg) :
            svg[j].tag = "text" =>
                LET rect == svg[j - 1]
                    k == LinesOfText(svg, j)
                    block_top == svg[j].y - 34
                IN  /\ rect.tag = "rect"
                    /\ k \in 1..3
                    /\ 2 * svg[j].y = 2 * rect.y + (110 - 40 * k) + 2 * 34
                    /\ block_top - rect.y = (rect.y + 110) - (block_top + 40 * k)
                    /\ svg[j].x = rect.x + 160
                    /\ \A h \in (j + 1)..(j + k) :
                          svg[h].tag = "tspan" /\ svg[h].x = rect.x + 160

\* a document with a label of two lines and a label of three lines
C21_Witness ==
    /\ svg_pc = "done" /\ svg_raised = "none"
    /\ \E i, j \in 1..Len(svg) :
          /\ svg[i].tag = "text" /\ LinesOfText(svg, i) = 2
          /\ svg[i].y = svg[i - 1].y + 15 + 34
          /\ svg[j].tag = "text" /\ LinesOfText(svg, j) = 3

\* C22: the wrapped text block of every node stays inside its box: the
\* number of lines times 40 is at most 110, so the offset (110 - 40k)/2 of
\* the block inside the box is not negative.
C22_TextBlockInsideBox ==
    (svg_pc = "done" /\ svg_raised = "none") =>
        \A j \in 1..Len(svg) :
            svg[j].tag = "text" =>
                /\ 40 * LinesOfText(svg, j) <= 110
                /\ svg[j].y - 34 >= svg[j - 1].y

\* the same for the labels that wrap to one or two lines
TextBlockInsideBoxUpToTwoLines ==
    (svg_pc = "done" /\ svg_raised = "none") =>
        \A j \in 1..Len(svg) :
            (svg[j].tag = "text" /\ LinesOfText(svg, j) <= 2) =>
                svg[j].y - 34 >= svg[j - 1].y

\* the corner of the grid cell of the node at Python index i
CellCorner(i) == NodeXY(i, grid.max_per_row)

\* the last Python index at which label stands in nodes
LastIndexOf(names, label) ==
    (CHOOSE k \in 1..Len(names) : names[k] = label /\ \A j \in (k + 1)..Len(names) : names[j] # label) - 1

\* the point <<x, y>> lies on the box whose top-left corner is c
OnBox(x, y, c) == x \in c[1]..(c[1] + box_w) /\ y \in c[2]..(c[2] + box_h)

\* C29: when the node list has the same label at two positions i < j, the
\* position lookup holds one position for the label, the grid cell of the
\* last occurrence j; both nodes' rectangles are drawn at that position while
\* cell i stays empty, and every edge naming the label is anchored there.
C29_DuplicateLabelsShareCell ==
    (svg_pc = "done" /\ svg_raised = "none") =>
        \A i, j \in 1..Len(nodes) :
            (i < j /\ nodes[i] = nodes[j]) =>
                LET label == nodes[j]
                    last == CellCorner(LastIndexOf(nodes, label))
                    valid == ValidEdges(edges, nodes)
                IN  /\ pos[label] = last
                    /\ <<Boxes(svg)[i].x, Boxes(svg)[i].y>> = last
                    /\ <<Boxes(svg)[j].x, Boxes(svg)[j].y>> = last
                    /\ \A k \in 1..Len(nodes) :
                          <<Boxes(svg)[k].x, Boxes(svg)[k].y>> # CellCorner(i - 1)
                    /\ Len(Lines(svg)) = Len(valid)
                    /\ \A k \in 1..Len(valid) :
                          /\ valid[k][1] = label =>
                                OnBox(Lines(svg)[k].x1, Lines(svg)[k].y1, last)
                          /\ valid[k][2] = label =>
                                OnBox(Lines(svg)[k].x2, Lines(svg)[k].y2, last)

\* A, B, A was rendered with edges between A and B: two boxes share the third
\* cell, and a line runs from the box of A to the box of B
C29_Witness ==
    /\ svg_pc = "done" /\ svg_raised = "none"
    /\ Len(nodes) = 3 /\ nodes[1] = nodes[3] /\ nodes[1] # nodes[2]
    /\ Boxes(svg)[1] = Boxes(svg)[3]
    /\ <<Boxes(svg)[1].x, Boxes(svg)[1].y>> = CellCorner(2)
    /\ \E k \in 1..Len(Lines(svg)) :
          /\ OnBox(Lines(svg)[k].x1, Lines(svg)[k].y1, CellCorner(2))
          /\ OnBox(Lines(svg)[k].x2, Lines(svg)[k].y2, CellCorner(1))

-----------------------------------------------------------------------------
(* Properties of _wrap_words                                               *)

Blank(text) == \A k \in 1..Len(text) : IsSpace(text[k])

\* C13: for every label and every positive budget the call returns 1 to 3
\* lines; a label that is empty or all whitespace gives exactly one empty
\* line; the lines returned are the first three the loop built, the words of
\* any later line being dropped.
C13_OneToThreeLines ==
    wrap_pc = "done" =>
        /\ Len(wrap_ret) >= 1
        /\ Len(wrap_ret) <= 3
        /\ Blank(wrap_text) => wrap_ret = << <<>> >>
        /\ ~Blank(wrap_text) =>
              /\ Len(wrap_ret) = Min(3, Len(wrap_lines))
              /\ \A k \in 1..Len(wrap_ret) : wrap_ret[k] = wrap_lines[k]

\* the loop built more than three lines and three came back
C13_Witness ==
    /\ wrap_pc = "done"
    /\ Len(wrap_lines) > 3
    /\ Len(wrap_ret) = 3
    /\ wrap_ret[3] # wrap_lines[Len(wrap_lines)]

\* the words of a list of lines, in order
RECURSIVE WordsOfLines(_)
WordsOfLines(lines) ==
    IF lines = <<>> THEN <<>>
    ELSE Words(Head(lines)) \o WordsOfLines(Tail(lines))

\* lines is the greedy filling of the words ws at the budget: the words in
\* their order, single-space joined, a line closed only when the next word
\* would make it longer than the budget, and every line of two or more words
\* within the budget
GreedyFill(lines, ws, budget) ==
    /\ WordsOfLines(lines) = ws
    /\ \A k \in 1..Len(lines) :
          /\ Words(lines[k]) # <<>>
          /\ lines[k] = Join(Words(lines[k]), <<" ">>)
          /\ Len(Words(lines[k])) >= 2 => Len(lines[k]) <= budget
          /\ Len(lines[k]) > budget => Len(Words(lines[k])) = 1
          /\ k < Len(lines) =>
                Len(lines[k]) + 1 + Len(Words(lines[k + 1])[1]) > budget

\* C20: the returned lines are the greedy filling cut to three lines: a word
\* stays on the current line exactly when the space-joined trial is at most
\* max_chars long (a trial of exactly max_chars stays: 'independence march'
\* at 18 is one line), so only a line of one over-long word exceeds it.
C20_GreedyWrap ==
    (wrap_pc = "done" /\ ~Blank(wrap_text)) =>
        /\ GreedyFill(wrap_lines, Words(wrap_text), wrap_max_chars)
        /\ wrap_ret = SubSeq(wrap_lines, 1, Min(3, Len(wrap_lines)))
        /\ (Len(wrap_text) = wrap_max_chars /\ wrap_text = Join(Words(wrap_text), <<" ">>))
               => wrap_ret = <<wrap_text>>

\* a label cut into lines at budget 18, one of them two words of exactly 18
\* characters together
C20_Witness ==
    /\ wrap_pc = "done"
    /\ wrap_max_chars = 18
    /\ Len(wrap_ret) >= 2
    /\ \E k \in 1..Len(wrap_ret) :
          Len(wrap_ret[k]) = 18 /\ Len(Words(wrap_ret[k])) = 2

-----------------------------------------------------------------------------
(* Properties of generate_pptx_for_topic                                   *)

\* the deck normalize_presentation_spec returns for the raw document
NormalizedDeck == Normalize(spec_raw, pipe_args.topic, slide_count_final).ret

\* the slides the plans were made from, and the slides laid out
PlannedSlides == [k \in 1..Len(plans) |-> plans[k].slide]

BuiltSlides == [k \in 1..Len(built) |-> built[k].slide]

\* C28: the stages run in a fixed order: the raw document is obtained, then
\* normalize_presentation_spec completes, then plan_slides runs on the
\* normalized deck, and only then build_pptx starts; no slide is planned or
\* rendered from the un-normalized document.
C28_StagesInOrder ==
    /\ pipe_pc = "start" => (spec_raw.null /\ pipe_spec.null)
    /\ pipe_pc \in {"start", "normalize", "failed"} => (pipe_spec.null /\ plans = <<>>)
    /\ pipe_pc \in {"start", "normalize", "failed", "plan", "setup"} => built = <<>>
    /\ pipe_pc \in {"normalize", "plan", "setup", "build", "done"} => ~spec_raw.null
    /\ pipe_pc \in {"plan", "setup", "build", "done"} =>
          (~pipe_spec.null /\ pipe_spec = NormalizedDeck)
    /\ pipe_pc \in {"setup", "build", "done"} =>
          (plans = plan_slides(pipe_spec) /\ PlannedSlides = pipe_spec.slides)
    /\ pipe_pc \in {"build", "done"} =>
          BuiltSlides = SubSeq(pipe_spec.slides, 1, Len(built))
    /\ pipe_pc = "done" => Len(built) = Len(pipe_spec.slides)

\* a file was built of a deck that normalization changed: the raw document had
\* no diagram and fewer slides, the file has the forced flow slide's diagram
C28_Witness ==
    /\ pipe_pc = "done"
    /\ pipe_spec.slides # spec_raw.slides
    /\ Len(spec_raw.slides) < Len(built)
    /\ \A k \in 1..Len(spec_raw.slides) : spec_raw.slides[k].diagram.null
    /\ \E k \in 1..Len(built) :
          /\ built[k].layout = "diagram_center"
          /\ built[k].diagram.how = "picture"
          /\ built[k].diagram.nodes = FixedDiagram.nodes

-----------------------------------------------------------------------------
(* Properties of UnsplashImageSearch.download                              *)

\* the requests of the running call that failed
Failed(k) == http[k].result \in RequestErrors

\* a step that issues an HTTP request
IssuesRequest == Len(http') = Len(http) + 1

\* a step that changes a file of the cache
WritesCache == cache' # cache

\* the call has ended
DownloadEnded == dl_pc = "done"

\* C30: download(url) issues no HTTP request when the cache already holds
\* url; otherwise it issues at most 3 requests, stops at the first successful
\* one, writes the received bytes to the cache under url exactly once and
\* returns them, and after 3 failed requests it raises without writing
\* anything to the cache, so a later download of the same url is served from
\* the cache only if an earlier one succeeded.
C30_DownloadAndCache ==
    /\ [](/\ Len(http) <= 3
          /\ \A k \in 1..(Len(http) - 1) : Failed(k)
          /\ \A k \in 1..Len(http) : http[k].url = dl_url
          /\ (DownloadEnded /\ http = <<>>) =>
                (dl_raised = "none" /\ dl_ret # None /\ dl_ret = CacheGet(cache, dl_url))
          /\ (DownloadEnded /\ http # <<>> /\ dl_raised = "none") =>
                (/\ http[Len(http)].result = "ok"
                 /\ dl_ret = http[Len(http)].body
                 /\ CacheGet(cache, dl_url) = dl_ret)
          /\ (DownloadEnded /\ dl_raised # "none") =>
                (/\ Len(http) = 3
                 /\ \A k \in 1..3 : Failed(k)
                 /\ CacheGet(cache, dl_url) = None))
    /\ [][/\ IssuesRequest => CacheGet(cache, dl_url) = None
          /\ WritesCache =>
                (/\ dl_pc = "set" /\ dl_pc' = "return"
                 /\ http[Len(http)].result = "ok"
                 /\ CacheGet(cache, dl_url) = None
                 /\ cache' = [cache EXCEPT ![dl_url] = http[Len(http)].body])
          /\ (dl_pc = "get" /\ CacheGet(cache, dl_url) # None) =>
                (dl_pc' = "done" /\ http' = <<>> /\ cache' = cache)]_vars

\* two requests failed and the third gave bytes, which are returned and
\* cached, while the other url is in the cache from an earlier call
C30_Witness ==
    /\ DownloadEnded /\ dl_raised = "none"
    /\ Len(http) = 3 /\ Failed(1) /\ Failed(2) /\ http[3].result = "ok"
    /\ dl_ret = "jpeg" /\ CacheGet(cache, dl_url) = "jpeg"
    /\ \A u \in Urls : CacheGet(cache, u) # None

\* a call was served from the cache without a request
ServedFromCache ==
    DownloadEnded /\ http = <<>> /\ dl_ret = "png"

\* three requests failed and the call raised, the url is not cached
RaisedAfterThreeFailures ==
    DownloadEnded /\ dl_raised = "Timeout" /\ Len(http) = 3 /\ CacheGet(cache, dl_url) = None

====
